---- MODULE Spec2Model ----
(***************************************************************************)
(* Variables-table plugin (src/code.ts, revision at lines 1064-2662):      *)
(* value resolution, grouping, filtering and the create-table request.     *)
(*                                                                         *)
(* Strings whose characters matter (variable names, group prefixes) are    *)
(* sequences of one-character strings, so that split('/'), trim() and      *)
(* replace(/\//g,'-') are computed and not assumed.                        *)
(* A host promise (figma.variables.*Async) is a suspension point: the code *)
(* between two suspension points is one atomic step.                       *)
(***************************************************************************)
EXTENDS Integers, Sequences, FiniteSets, TLC

\* ------------------------------------------------------------- bounds
\* Number of variables the host document holds (ids 1..NumVars).
NumVars == 3
\* The recursion depth of resolveColorValue is counted up to MaxHops and
\* saturates there; the recursion itself is not cut.
MaxHops == 4

\* Host calls that may reject while one message is handled.
MaxThrows == 1
\* Group entries a create-table message may select.
MaxGroups == 2

\* Characters of a name given to generateDevToken.
MaxNameLen == 5
\* Texts one createTextNodesBatch call is given.
MaxTexts == 2

VarIds == 1..NumVars
\* Ids an alias marker may carry: 0 is the id of no variable (dangling).
AliasIds == 0..NumVars
\* Mode ids a variable may store values for, and mode ids a caller may ask for
\* ("m3" is a mode no variable of the model stores).
StoredModes == {"m1", "m2"}
ModeIds == {"m1", "m2", "m3"}

Min(a, b) == IF a < b THEN a ELSE b

\* ------------------------------------------------------------- values
\* A raw value (VariableValue | undefined): a tagged pair.
Undefined == <<"undefined", 0>>
Null == <<"null", 0>>
Alias(id) == <<"alias", id>>
Color(tag) == <<"color", tag>>
Str(s) == <<"str", s>>
Num(n) == <<"num", n>>

\* value === undefined || value === null
IsAbsent(v) == v = Undefined \/ v = Null
\* typeof value === 'object' && 'type' in value && value.type === 'VARIABLE_ALIAS' && 'id' in value
IsAlias(v) == v[1] = "alias"
\* typeof value === 'object' && 'r' in value && 'g' in value && 'b' in value
IsColor(v) == v[1] = "color"

\* String.prototype.includes(ch)
Includes(s, ch) == \E i \in 1..Len(s) : s[i] = ch
\* typeof value === 'string' && value.includes('/')
IsSlashString(v) == v[1] = "str" /\ Includes(v[2], "/")

\* Mutant: replace('/', '-') without the g flag rewrites the first '/' only.
formatVariableName_FirstOnly(name) ==
  [i \in 1..Len(name) |->
     IF name[i] = "/" /\ ~\E j \in 1..(i - 1) : name[j] = "/" THEN "-" ELSE name[i]]

\* name.replace(/\//g, '-')
formatVariableName(name) == [i \in 1..Len(name) |-> IF name[i] = "/" THEN "-" ELSE name[i]]

\* ------------------------------------------------------------- host store
\* valuesByMode is an object: a sequence of <<modeId, value>> in key order
\* (Object.keys order is insertion order for these keys).
HasMode(vbm, m) == \E i \in 1..Len(vbm) : vbm[i][1] = m
\* variable.valuesByMode[modeId]
ValueOf(vbm, m) ==
  IF HasMode(vbm, m) THEN vbm[CHOOSE i \in 1..Len(vbm) : vbm[i][1] = m][2] ELSE Undefined
\* Object.keys(variable.valuesByMode)
ObjectKeys(vbm) == [i \in 1..Len(vbm) |-> vbm[i][1]]

\* A Variable of the host: name, resolvedType, valuesByMode, variableCollectionId.
Variable(n, t, vbm, c) ==
  [name |-> n, resolvedType |-> t, valuesByMode |-> vbm, variableCollectionId |-> c]

\* The direct colour variable i stores under mode m: every stored colour is a
\* distinct object, so "returns exactly that colour" is checkable.
ColorTag(i, m) == 10 * i + (IF m = "m1" THEN 1 ELSE 2)

\* All valuesByMode objects over StoredModes, in both key orders, whose values
\* are the variable's own direct colour or an alias to one of the ids in T.
ValueMaps(i, T) ==
  LET R(m) == {Color(ColorTag(i, m))} \cup {Alias(t) : t \in T}
  IN  {<<>>}
      \cup UNION {{<< <<m, v>> >> : v \in R(m)} : m \in StoredModes}
      \cup UNION {{<< <<p[1], va>>, <<p[2], vb>> >> : va \in R(p[1]), vb \in R(p[2])}
                  : p \in {q \in StoredModes \X StoredModes : q[1] # q[2]}}

\* Names of the variables of the alias-shaped documents.
ChainNames == << <<"a", "/", "x">>, <<"a", "/", "y", "/", "z">>, <<"b">>, <<"c", "/", "w">> >>
ChainName(i) == ChainNames[((i - 1) % Len(ChainNames)) + 1]

\* Alias edges of the alias-shaped documents: the ring i -> i+1 -> ... -> 1 and
\* the back edge 2 -> 1, which give chains of every length up to NumVars and
\* cycles of length 2 and NumVars.
ChainTargets(i) == {(i % NumVars) + 1} \cup (IF i = 2 THEN {1} ELSE {})

\* What variable i may be in an alias-shaped document: a COLOR variable with
\* any ValueMaps, or a STRING variable.
ChainVariables(i) ==
  {Variable(ChainName(i), "COLOR", vbm, "c1") : vbm \in ValueMaps(i, ChainTargets(i))}
  \cup {Variable(ChainName(i), "STRING", << <<"m1", Str(<<"t">>)>> >>, "c1")}

\* The documents of n variables: variable i is the i-th element (its id is i).
RECURSIVE ChainStoresOf(_)
ChainStoresOf(n) ==
  IF n = 0 THEN {<<>>}
  ELSE {Append(st, v) : st \in ChainStoresOf(n - 1), v \in ChainVariables(n)}
ChainStores == ChainStoresOf(NumVars)

\* Documents for the message handler, alias-shaped: every variable is a COLOR
\* variable of collection "c1" with a value for "m1" and for "m2": its own
\* colour or an alias to the next variable, under "m1" for variable 1 also a
\* dangling alias and for variable 2 also an alias back to variable 1 (a cycle).
AliasDocTargets(i, m) ==
  (IF i < NumVars THEN {i + 1} ELSE {})
  \cup (IF m = "m1" /\ i = 1 THEN {0} ELSE {})
  \cup (IF m = "m1" /\ i = 2 THEN {1} ELSE {})
AliasDocVariables(i) ==
  {Variable(ChainName(i), "COLOR", << <<"m1", a>>, <<"m2", b>> >>, "c1")
     : a \in {Color(ColorTag(i, "m1"))} \cup {Alias(t) : t \in AliasDocTargets(i, "m1")},
       b \in {Color(ColorTag(i, "m2"))} \cup {Alias(t) : t \in AliasDocTargets(i, "m2")}}
RECURSIVE AliasDocsOf(_)
AliasDocsOf(n) ==
  IF n = 0 THEN {<<>>}
  ELSE {Append(st, v) : st \in AliasDocsOf(n - 1), v \in AliasDocVariables(n)}
AliasDocs == AliasDocsOf(NumVars)

\* Documents for the message handler, name-shaped: the variables have distinct
\* names from NamePool in any order and one direct value; the last variable is
\* a STRING variable and lies in collection "c1" or "c2".
NamePool ==
  {<<"a", "/", "x">>, <<"a", "/", "y">>, <<"A", "/", "x">>, <<"a">>, <<"b">>,
   <<"/", "x">>, <<" ", "/", "x">>}
NameDocVariables(i, name) ==
  IF i < NumVars
  THEN {Variable(name, "COLOR", << <<"m1", Color(ColorTag(i, "m1"))>> >>, "c1")}
  ELSE {Variable(name, "STRING", << <<"m1", Str(<<"t">>)>> >>, c) : c \in {"c1", "c2"}}
RECURSIVE NameDocsOf(_)
NameDocsOf(n) ==
  IF n = 0 THEN {<<>>}
  ELSE UNION {{Append(st, v) : v \in NameDocVariables(n, name)}
              : <<st, name>> \in {p \in NameDocsOf(n - 1) \X NamePool :
                                    \A i \in 1..Len(p[1]) : p[1][i].name # p[2]}}
NameDocs == NameDocsOf(NumVars)

\* ------------------------------------------------------------- names and groups
\* name.split('/')[0]
FirstSegment(name) ==
  IF Includes(name, "/")
  THEN SubSeq(name, 1, (CHOOSE i \in 1..Len(name) :
                          name[i] = "/" /\ \A j \in 1..(i - 1) : name[j] # "/") - 1)
  ELSE name
\* name.split('/').length
PartsLength(name) == 1 + Cardinality({i \in 1..Len(name) : name[i] = "/"})
\* s.trim() is a non-empty string
TrimIsTruthy(s) == \E i \in 1..Len(s) : s[i] # " "
\* nameParts.length > 1 && nameParts[0].trim()
HasGroupPrefix(name) == PartsLength(name) > 1 /\ TrimIsTruthy(FirstSegment(name))

\* The characters of the model in the order of the 'en' collation (white space,
\* punctuation, letters); sensitivity 'base' makes "A" equal to "a".
Alphabet == <<" ", "-", "/", "a", "b", "c", "e", "h", "o", "q", "r", "t", "w", "x", "y", "z">>
BaseLetter(ch) == IF ch = "A" THEN "a" ELSE IF ch = "B" THEN "b" ELSE ch
Rank(ch) == CHOOSE i \in 1..Len(Alphabet) : Alphabet[i] = BaseLetter(ch)
\* a.localeCompare(b, 'en', { sensitivity: 'base' }): negative, 0 or positive.
LocaleCompare(a, b) ==
  LET n == Min(Len(a), Len(b))
      diff == {i \in 1..n : Rank(a[i]) # Rank(b[i])}
  IN  IF diff = {}
      THEN (IF Len(a) < Len(b) THEN -1 ELSE IF Len(a) > Len(b) THEN 1 ELSE 0)
      ELSE LET i == CHOOSE d \in diff : \A e \in diff : d <= e
           IN  IF Rank(a[i]) < Rank(b[i]) THEN -1 ELSE 1

\* Array.prototype.sort with a consistent comparator: the stable sorted order.
StableSort(s, Cmp(_, _)) ==
  LET pos(i) == 1 + Cardinality({j \in 1..Len(s) :
                       Cmp(s[j], s[i]) < 0 \/ (Cmp(s[j], s[i]) = 0 /\ j < i)})
  IN  [k \in 1..Len(s) |-> s[CHOOSE i \in 1..Len(s) : pos(i) = k]]

\* The distinct elements of s in the order of their first occurrence (the key
\* order of a Map filled from s).
FirstOccurrences(s) ==
  LET keep == {i \in 1..Len(s) : \A j \in 1..(i - 1) : s[j] # s[i]}
      pos(i) == Cardinality({j \in keep : j <= i})
  IN  [k \in 1..Cardinality(keep) |-> s[CHOOSE i \in keep : pos(i) = k]]

\* Array.prototype.filter
Filter(s, Test(_)) == SelectSeq(s, Test)
\* Array.prototype.map
Map(s, F(_)) == [i \in 1..Len(s) |-> F(s[i])]
Count(s, Test(_)) == Cardinality({i \in 1..Len(s) : Test(s[i])})

\* A GroupInfo: prefix, count, isIndividual?, variableName?.
UndefinedName == <<"undefined">>
PrefixGroup(p, n) ==
  [prefix |-> p, count |-> n, isIndividual |-> FALSE, variableName |-> UndefinedName]
IndividualGroup(name) ==
  [prefix |-> name, count |-> 1, isIndividual |-> TRUE, variableName |-> name]

\* figma.variables.getLocalVariablesAsync() then the filter on
\* variableCollectionId: the ids of the collection's variables in document order.
CollectionVariables(st, collectionId) ==
  Filter([i \in 1..Len(st) |-> i], LAMBDA i : st[i].variableCollectionId = collectionId)

\* loadGroups: the groups and totalVariables of the 'groups-loaded' message.
GroupsLoaded(st, collectionId) ==
  LET ids == CollectionVariables(st, collectionId)
      prefixed == Filter(ids, LAMBDA i : HasGroupPrefix(st[i].name))
      prefixes == FirstOccurrences(Map(prefixed, LAMBDA i : FirstSegment(st[i].name)))
      groups == StableSort(
                  Map(prefixes, LAMBDA q :
                        PrefixGroup(q, Count(prefixed, LAMBDA i : FirstSegment(st[i].name) = q))),
                  LAMBDA a, b : LocaleCompare(a.prefix, b.prefix))
      individualVariables ==
        Map(Filter(ids, LAMBDA i : ~HasGroupPrefix(st[i].name)), LAMBDA i : st[i].name)
      individualGroups == Map(StableSort(individualVariables, LocaleCompare), IndividualGroup)
  IN  [groups |-> groups \o individualGroups, totalVariables |-> Len(ids)]

\* Mutant: a prefix entry is compared with the first segment of every name.
MatchesGroup_AnyFirstSegment(name, group) ==
  IF group.isIndividual THEN name = group.variableName
  ELSE FirstSegment(name) = group.prefix

\* The test of getFilteredVariables: groups.some(...) for one variable name.
\* The selected groups are an array; some() does not depend on its order, so
\* they are a set here.
MatchesGroup(name, group) ==
  IF group.isIndividual THEN name = group.variableName
  ELSE IF HasGroupPrefix(name) THEN FirstSegment(name) = group.prefix
  ELSE FALSE
FilteredVariables(st, collectionId, groups) ==
  Filter(CollectionVariables(st, collectionId),
         LAMBDA i : \E g \in groups : MatchesGroup(st[i].name, g))

\* Mutant: the comparator stops at the prefixes.
CompareByPrefixAndName_PrefixOnly(a, b) == LocaleCompare(FirstSegment(a), FirstSegment(b))

\* sortVariablesByPrefixAndName's comparator on two names.
CompareByPrefixAndName(a, b) ==
  IF LocaleCompare(FirstSegment(a), FirstSegment(b)) # 0
  THEN LocaleCompare(FirstSegment(a), FirstSegment(b))
  ELSE LocaleCompare(a, b)
sortVariablesByPrefixAndName(variablesData) ==
  StableSort(variablesData, LAMBDA a, b : CompareByPrefixAndName(a.name, b.name))

\* Mutant: records whose name has an empty first segment get no group.
groupVariablesByPrefix_DropsEmpty(variablesData) ==
  LET kept == SelectSeq(variablesData, LAMBDA d : FirstSegment(d.name) # <<>>)
  IN  [g \in 1..Len(FirstOccurrences([i \in 1..Len(kept) |-> FirstSegment(kept[i].name)])) |->
         LET q == FirstOccurrences([i \in 1..Len(kept) |-> FirstSegment(kept[i].name)])[g]
             rows == SelectSeq(kept, LAMBDA d : FirstSegment(d.name) = q)
         IN  [prefix |-> q, variables |-> [j \in 1..Len(rows) |-> rows[j].variable]]]

\* variable.name.split('/')[0] || 'other'
PrefixOrOther(name) ==
  IF FirstSegment(name) = <<>> THEN <<"o", "t", "h", "e", "r">> ELSE FirstSegment(name)
\* groupVariablesByPrefix: the Map as a sequence of [prefix, variables] in key
\* order; a VariableData is named by the id of its variable.
groupVariablesByPrefix(variablesData) ==
  Map(FirstOccurrences(Map(variablesData, LAMBDA d : PrefixOrOther(d.name))),
      LAMBDA q : [prefix |-> q,
                  variables |-> Map(Filter(variablesData, LAMBDA d : PrefixOrOther(d.name) = q),
                                    LAMBDA d : d.variable)])

\* ------------------------------------------------------------- host lookups
\* figma.variables.getVariableByIdAsync(id), when it resolves: the variable
\* (named by its id) or null (0).
getVariableByIdAsync(st, id) == IF id \in DOMAIN st THEN id ELSE 0

\* allVariables.find(v => v.name === name && v.resolvedType === 'COLOR') over
\* figma.variables.getLocalVariablesAsync(): the first match in document order,
\* or undefined (0).
FindColorByName(st, name) ==
  LET hits == {i \in DOMAIN st : st[i].name = name /\ st[i].resolvedType = "COLOR"}
  IN  IF hits = {} THEN 0 ELSE CHOOSE i \in hits : \A j \in hits : i <= j

\* ------------------------------------------------------------- resolveColorValue
\* One activation of an async resolver: where it is suspended (pc), its
\* arguments, the result once it has returned, and the recursion depth.
Frame(pc, v, m, val, res, h) ==
  [pc |-> pc, var |-> v, mode |-> m, value |-> val, result |-> res, hops |-> h]
IdleFrame == Frame("idle", 0, "m1", Undefined, Null, 0)
Returned(f, res) == [f EXCEPT !.pc = "done", !.result = res]
\* The activation ends with an exception that reaches its caller.
Raised(f) == [f EXCEPT !.pc = "raised"]

\* Mutant: a depth guard returns null once MaxHops recursive calls were made.
RcEnter_DepthGuard(v, m, val, h) ==
  LET f == Frame("enter", v, m, val, Null, h)
  IN  IF IsAbsent(val) \/ h >= MaxHops THEN Returned(f, Null)
      ELSE IF IsAlias(val) THEN [f EXCEPT !.pc = "lookup"]
      ELSE IF IsSlashString(val) THEN [f EXCEPT !.pc = "list"]
      ELSE IF IsColor(val) THEN Returned(f, val)
      ELSE Returned(f, Null)

\* resolveColorValue from its entry to its first suspension point or return.
RcEnter(v, m, val, h) ==
  LET f == Frame("enter", v, m, val, Null, h)
  IN  IF IsAbsent(val) THEN Returned(f, Null)
      ELSE IF IsAlias(val) THEN [f EXCEPT !.pc = "lookup"]
      ELSE IF IsSlashString(val) THEN [f EXCEPT !.pc = "list"]
      ELSE IF IsColor(val) THEN Returned(f, val)
      ELSE Returned(f, Null)

\* Mutant: the first key is taken without trying the requested mode.
RefValue_FirstKeyOnly(vbm, m) ==
  IF Len(ObjectKeys(vbm)) > 0 THEN ValueOf(vbm, ObjectKeys(vbm)[1]) ELSE Undefined

\* Mutant: the fallback takes the last key instead of the first.
RefValue_LastKey(vbm, m) ==
  IF ValueOf(vbm, m) # Undefined THEN ValueOf(vbm, m)
  ELSE IF Len(ObjectKeys(vbm)) > 0 THEN ValueOf(vbm, ObjectKeys(vbm)[Len(vbm)])
  ELSE Undefined

\* referencedVariable.valuesByMode[modeId], else the value of the first key.
RefValue(vbm, m) ==
  IF ValueOf(vbm, m) # Undefined THEN ValueOf(vbm, m)
  ELSE IF Len(ObjectKeys(vbm)) > 0 THEN ValueOf(vbm, ObjectKeys(vbm)[1])
  ELSE Undefined

\* Mutant: the rejection is not caught.
RcCatch_Propagates(f) == Raised(f)

\* catch (error) { return null; } of the alias branch and of the name branch.
RcCatch(f) == Returned(f, Null)

\* Mutant: the recursive call is made with the caller's own alias value.
RcAfterLookup_SameValue(st, f, throws) ==
  IF throws THEN RcCatch(f)
  ELSE LET ref == getVariableByIdAsync(st, f.value[2])
       IN  IF ref # 0 /\ st[ref].resolvedType = "COLOR"
           THEN LET refValue == RefValue(st[ref].valuesByMode, f.mode)
                IN  IF refValue # Undefined
                    THEN RcEnter(ref, f.mode, f.value, Min(f.hops + 1, MaxHops))
                    ELSE Returned(f, Null)
           ELSE Returned(f, Null)

\* Mutant: the recursive call is given the mode the value was taken from.
RcAfterLookup_FallbackModeKept(st, f, throws) ==
  IF throws THEN RcCatch(f)
  ELSE LET ref == getVariableByIdAsync(st, f.value[2])
       IN  IF ref # 0 /\ st[ref].resolvedType = "COLOR"
           THEN LET vbm == st[ref].valuesByMode
                    refValue == RefValue(vbm, f.mode)
                    usedMode == IF HasMode(vbm, f.mode) THEN f.mode ELSE ObjectKeys(vbm)[1]
                IN  IF refValue # Undefined
                    THEN RcEnter(ref, usedMode, refValue, Min(f.hops + 1, MaxHops))
                    ELSE Returned(f, Null)
           ELSE Returned(f, Null)

\* The alias branch after getVariableByIdAsync has settled. Every frame of the
\* recursion returns its callee's result unchanged and no callee throws, so the
\* frame is replaced by the callee's and hops counts the depth.
RcAfterLookup(st, f, throws) ==
  IF throws THEN RcCatch(f)
  ELSE LET ref == getVariableByIdAsync(st, f.value[2])
       IN  IF ref # 0 /\ st[ref].resolvedType = "COLOR"
           THEN LET refValue == RefValue(st[ref].valuesByMode, f.mode)
                IN  IF refValue # Undefined
                    THEN RcEnter(ref, f.mode, refValue, Min(f.hops + 1, MaxHops))
                    ELSE Returned(f, Null)
           ELSE Returned(f, Null)

\* The name-string branch after getLocalVariablesAsync has settled.
RcAfterList(st, f, throws) ==
  IF throws THEN RcCatch(f)
  ELSE LET found == FindColorByName(st, f.value[2])
       IN  IF found = 0 THEN Returned(f, Null)
           ELSE LET vbm == st[found].valuesByMode
                IN  IF ValueOf(vbm, f.mode) # Undefined
                    THEN RcEnter(found, f.mode, ValueOf(vbm, f.mode), Min(f.hops + 1, MaxHops))
                    ELSE IF Len(ObjectKeys(vbm)) > 0
                    THEN RcEnter(found, ObjectKeys(vbm)[1], ValueOf(vbm, ObjectKeys(vbm)[1]),
                                 Min(f.hops + 1, MaxHops))
                    ELSE Returned(f, Null)

\* One resumption of a suspended resolveColorValue.
RcResume(st, f, throws) ==
  IF f.pc = "lookup" THEN RcAfterLookup(st, f, throws) ELSE RcAfterList(st, f, throws)

\* ------------------------------------------------------------- resolveVariableValue
\* Fixed strings whose characters play no part are one-element sequences.
EmptyString == Str(<<>>)
UnknownVariable == Str(<<"Unknown variable">>)
ErrorResolvingAlias == Str(<<"Error resolving alias">>)

\* resolveVariableValue from its entry to its suspension point or return.
RvEnter(v, m, val) ==
  LET f == Frame("enter", v, m, val, Null, 0)
  IN  IF IsAbsent(val) THEN Returned(f, EmptyString)
      ELSE IF IsAlias(val) THEN [f EXCEPT !.pc = "lookup"]
      ELSE Returned(f, val)

\* catch (error) { return 'Error resolving alias'; }
RvCatch(f) == Returned(f, ErrorResolvingAlias)

\* The alias branch after getVariableByIdAsync has settled.
RvAfterLookup(st, f, throws) ==
  IF throws THEN RvCatch(f)
  ELSE LET ref == getVariableByIdAsync(st, f.value[2])
       IN  IF ref # 0 THEN Returned(f, Str(formatVariableName(st[ref].name)))
           ELSE Returned(f, UnknownVariable)

\* ------------------------------------------------------------- state
VARIABLES
  store,      \* the host document: variable id -> Variable
  storage,    \* figma.clientStorage: the value under the key 'userSettings'
  fillCache,  \* the module's fillCache map: key -> SolidPaint
  fontCache,  \* the module's fontCache map: font type -> FontName
  call,       \* a direct call of a resolver: function, arguments, frame, whether a host call threw
  pc,         \* where the message handler is suspended
  msg,        \* the message being handled
  tasks,      \* the calls Promise.all waits for: processVariableData, one per filtered
              \* variable; in createTextNodesBatch the font loads, then the text nodes
  table,      \* what createTableFrame has put on the canvas
  posted,     \* figma.ui.postMessage calls of the request, in order
  notified,   \* figma.notify calls of the request, in order
  closed,     \* figma.closePlugin() was called
  canvas,     \* the blocks createTableFrame has built, group frame by group frame
  throwsLeft  \* host calls that may still reject during the request

plugin == <<storage, fillCache, fontCache, pc, msg, tasks, table, posted, notified, closed, canvas, throwsLeft>>
vars == <<store, storage, fillCache, fontCache, call, pc, msg, tasks, table, posted, notified, closed, canvas, throwsLeft>>

\* ------------------------------------------------------------- processVariableData
\* Mutant: the entries are pushed to a list, a repeated key is not overwritten.
SetKey_Push(obj, key, val) == Append(obj, <<key, val>>)

\* obj[key] = val on an object kept as a sequence of <<key, value>>.
SetKey(obj, key, val) ==
  IF HasMode(obj, key)
  THEN [i \in 1..Len(obj) |-> IF obj[i][1] = key THEN <<key, val>> ELSE obj[i]]
  ELSE Append(obj, <<key, val>>)

\* One processVariableData call: its variable, the index of the mode of the
\* current loop iteration, the await it is suspended at (stage) with the
\* callee's frame, and the three objects it fills.
NewTask(v) ==
  [var |-> v, mi |-> 1, stage |-> "run", f |-> IdleFrame,
   values |-> <<>>, colorValues |-> <<>>, aliasVariables |-> <<>>]

RECURSIVE RunModes(_, _, _)
RECURSIVE AfterDisplay(_, _, _)
RECURSIVE AfterColor(_, _, _)

\* Mutant: the loop steps over the mode that follows the current one.
NextMode_SkipsAMode(st, modes, t) == RunModes(st, modes, [t EXCEPT !.mi = @ + 2])

\* After aliasVariables[mode.modeId] is set: the next loop iteration.
NextMode(st, modes, t) == RunModes(st, modes, [t EXCEPT !.mi = @ + 1])

\* After colorValues[mode.modeId] is set: the alias binding of the mode.
AfterColor(st, modes, t) ==
  LET m == modes[t.mi]
      rawValue == ValueOf(st[t.var].valuesByMode, m)
  IN  IF IsAlias(rawValue) THEN [t EXCEPT !.stage = "alias", !.f = IdleFrame]
      ELSE NextMode(st, modes, [t EXCEPT !.aliasVariables = SetKey(@, m, t.var)])

\* After values[mode.modeId] is set: resolveColorValue for a COLOR variable.
AfterDisplay(st, modes, t) ==
  LET m == modes[t.mi]
      rawValue == ValueOf(st[t.var].valuesByMode, m)
      f == RcEnter(t.var, m, rawValue, 0)
  IN  IF st[t.var].resolvedType = "COLOR"
      THEN IF f.pc = "done"
           THEN AfterColor(st, modes, [t EXCEPT !.colorValues = SetKey(@, m, f.result)])
           ELSE [t EXCEPT !.stage = "rc", !.f = f]
      ELSE NextMode(st, modes, t)

\* The loop of processVariableData from the top of iteration t.mi to the next
\* suspension, or to the return.
RunModes(st, modes, t) ==
  IF t.mi > Len(modes) THEN [t EXCEPT !.stage = "done", !.f = IdleFrame]
  ELSE LET m == modes[t.mi]
           rawValue == ValueOf(st[t.var].valuesByMode, m)
           f == RvEnter(t.var, m, rawValue)
       IN  IF f.pc = "done"
           THEN AfterDisplay(st, modes, [t EXCEPT !.values = SetKey(@, m, f.result)])
           ELSE [t EXCEPT !.stage = "rv", !.f = f]

\* Mutant: the binding follows a second alias hop of the referenced variable.
AliasBinding_SecondHop(st, rawValue, throws) ==
  IF throws THEN 0
  ELSE LET ref == getVariableByIdAsync(st, rawValue[2])
       IN  IF ref # 0 /\ Len(st[ref].valuesByMode) > 0 /\ IsAlias(st[ref].valuesByMode[1][2])
           THEN getVariableByIdAsync(st, st[ref].valuesByMode[1][2][2])
           ELSE ref

\* The alias binding: referencedVariable || null, and null when the lookup throws.
AliasBinding(st, rawValue, throws) ==
  IF throws THEN 0 ELSE getVariableByIdAsync(st, rawValue[2])

\* The host promise a suspended processVariableData awaits settles.
TaskResume(st, modes, t, throws) ==
  LET m == modes[t.mi]
      rawValue == ValueOf(st[t.var].valuesByMode, m)
  IN  IF t.stage = "rv"
      THEN LET f == RvAfterLookup(st, t.f, throws)
           IN  IF f.pc = "raised" THEN [t EXCEPT !.stage = "raised", !.f = f]
               ELSE AfterDisplay(st, modes, [t EXCEPT !.values = SetKey(@, m, f.result)])
      ELSE IF t.stage = "rc"
      THEN LET f == RcResume(st, t.f, throws)
           IN  IF f.pc = "raised" THEN [t EXCEPT !.stage = "raised", !.f = f]
               ELSE IF f.pc = "done"
               THEN AfterColor(st, modes, [t EXCEPT !.colorValues = SetKey(@, m, f.result)])
               ELSE [t EXCEPT !.f = f]
      ELSE NextMode(st, modes,
                    [t EXCEPT !.aliasVariables = SetKey(@, m, AliasBinding(st, rawValue, throws))])

\* The VariableData a finished processVariableData returns (devToken left out).
VariableData(st, t) ==
  [name |-> st[t.var].name,
   variableType |-> st[t.var].resolvedType,
   values |-> t.values,
   variable |-> t.var,
   colorValues |-> [defined |-> st[t.var].resolvedType = "COLOR",
                    entries |-> IF st[t.var].resolvedType = "COLOR" THEN t.colorValues ELSE <<>>],
   aliasVariables |-> [defined |-> st[t.var].resolvedType = "COLOR",
                       entries |-> IF st[t.var].resolvedType = "COLOR"
                                   THEN t.aliasVariables ELSE <<>>]]

\* ------------------------------------------------------------- the message handler
\* Messages of the UI. A missing string field is "undefined"; modes is an array
\* of mode ids (only modeId is read), groups a set of GroupInfo.
ModeLists == {<<>>, <<"m1">>, <<"m2", "m1">>, <<"m1", "m3">>, <<"m1", "m1">>}
GroupPool ==
  {PrefixGroup(q, 0) : q \in {<<"a">>, <<>>, <<" ">>}}
  \cup {IndividualGroup(n) : n \in {<<"a">>, <<"b">>, <<"/", "x">>, <<"a", "/", "x">>}}
  \cup {[prefix |-> <<"a">>, count |-> 0, isIndividual |-> TRUE, variableName |-> UndefinedName]}
GroupLists == {g \in SUBSET GroupPool : Cardinality(g) <= MaxGroups}

\* An optional array field of a message: present with its elements, or absent.
Given(x) == [defined |-> TRUE, value |-> x]
NoModes == [defined |-> FALSE, value |-> <<>>]
NoGroups == [defined |-> FALSE, value |-> {}]

Message(type, cid, cname, modes, groups) ==
  [type |-> type, collectionId |-> cid, collectionName |-> cname, modes |-> modes, groups |-> groups,
   settings |-> "undefined"]
NoMessage == Message("none", "undefined", "undefined", NoModes, NoGroups)

\* Collection ids the host knows: getVariableCollectionByIdAsync resolves to
\* null for any other.
Collections == {"c1", "c2"}

\* create-table requests with every field: any selection of groups under one
\* mode, any list of modes under two selections, and other collections.
CreateTableMessages ==
  {Message("create-table", "c1", "Colors", Given(<<"m1">>), Given(groups)) : groups \in GroupLists}
  \cup {Message("create-table", "c1", "Colors", Given(modes), Given(groups))
          : modes \in ModeLists,
            groups \in {{PrefixGroup(<<"a">>, 0)}, {PrefixGroup(<<"a">>, 0), IndividualGroup(<<"b">>)}}}
  \cup {Message("create-table", cid, "Colors", Given(<<"m1">>), Given({PrefixGroup(<<"a">>, 0)}))
          : cid \in {"c2", "c9"}}
\* Requests that lack one of the four required fields ('' counts as lacking),
\* or all of them.
LackingMessages ==
  {Message("create-table", cid, "Colors", Given(<<"m1">>), Given({PrefixGroup(<<"a">>, 0)}))
     : cid \in {"undefined", ""}}
  \cup {Message("create-table", "c1", "undefined", Given(<<"m1">>), Given({PrefixGroup(<<"a">>, 0)})),
        Message("create-table", "c1", "Colors", NoModes, Given({PrefixGroup(<<"a">>, 0)})),
        Message("create-table", "c1", "Colors", Given(<<"m1">>), NoGroups),
        Message("create-table", "undefined", "undefined", NoModes, NoGroups)}
LoadGroupsMessages ==
  {Message("load-groups", cid, "undefined", NoModes, NoGroups)
     : cid \in {"c1", "c2", "c9", "undefined"}}
Messages == CreateTableMessages \cup LackingMessages \cup LoadGroupsMessages

\* The collections in the order of getLocalVariableCollectionsAsync.
CollectionList == <<"c1", "c2">>
\* collections.map(...) of loadCollections: id and variableCount of each
\* collection (name and modes are carried along unchanged).
CollectionsData(st) ==
  [i \in 1..Len(CollectionList) |->
     [id |-> CollectionList[i],
      variableCount |->
        Cardinality({v \in DOMAIN st : st[v].variableCollectionId = CollectionList[i]})]]

\* A string field of the message is truthy.
Truthy(x) == x # "undefined" /\ x # ""

UiMessage(type, message, groups, total) ==
  [type |-> type, message |-> message, groups |-> groups, totalVariables |-> total]
ErrorMessage(message) == UiMessage("error", message, <<>>, 0)
Notification(message, isError) == [message |-> message, error |-> isError]

NoTable == [entered |-> FALSE, records |-> <<>>, groups |-> <<>>]
\* Nothing is built: no block, and the options of the request are the defaults.
NoCanvas == [showSwatches |-> TRUE, blocks |-> <<>>]

PluginIdle ==
  /\ storage = "undefined"
  /\ fillCache = <<>>
  /\ fontCache = <<>>
  /\ pc = "idle"
  /\ msg = NoMessage
  /\ tasks = <<>>
  /\ table = NoTable
  /\ posted = <<>>
  /\ notified = <<>>
  /\ closed = FALSE
  /\ canvas = NoCanvas
  /\ throwsLeft = MaxThrows

\* A host call may reject while throwsLeft allows it.
Rejections == IF throwsLeft > 0 THEN {FALSE, TRUE} ELSE {FALSE}
Spend(throws) == IF throws THEN throwsLeft - 1 ELSE throwsLeft

\* ------------------------------------------------------------- direct resolver calls
NoCall == [fn |-> "none", arg |-> <<0, "m1", Undefined>>, threw |-> FALSE, f |-> IdleFrame]

\* Values resolveColorValue is called with besides a variable's own raw value:
\* absent, an alias to every id (0 dangles; under "m3" the target has no value
\* for the requested mode), a foreign colour, a number, name strings with and
\* without '/'.
ExtraColorInputs ==
  {Undefined, Null, Color(99), Num(1), Str(<<"t">>), Str(<<"z", "/", "q">>)}
  \cup {Alias(t) : t \in AliasIds}
  \cup {Str(ChainName(i)) : i \in VarIds}
\* The same for resolveVariableValue.
ExtraDisplayInputs == {Undefined, Null, Alias(0), Color(99), Num(1), Str(<<"t">>)}

\* processVariableData passes variable.valuesByMode[modeId]; any caller may pass
\* any value (the parameter is `unknown`, and the variable argument is not read).
Inputs(st, v, m, extra) ==
  {ValueOf(st[v].valuesByMode, m)} \cup (IF v = 1 /\ m # "m2" THEN extra ELSE {})

CallResolveColorValue ==
  /\ call.fn = "none"
  /\ \E v \in VarIds, m \in ModeIds :
       \E val \in Inputs(store, v, m, ExtraColorInputs) :
         call' = [fn |-> "resolveColorValue", arg |-> <<v, m, val>>, threw |-> FALSE,
                  f |-> RcEnter(v, m, val, 0)]
  /\ UNCHANGED <<store, plugin>>

CallResolveVariableValue ==
  /\ call.fn = "none"
  /\ \E v \in VarIds, m \in ModeIds :
       \E val \in Inputs(store, v, m, ExtraDisplayInputs) :
         call' = [fn |-> "resolveVariableValue", arg |-> <<v, m, val>>, threw |-> FALSE,
                  f |-> RvEnter(v, m, val)]
  /\ UNCHANGED <<store, plugin>>

\* The host promise a resolveColorValue frame awaits resolves or rejects.
RcSettle ==
  /\ call.fn = "resolveColorValue"
  /\ call.f.pc \in {"lookup", "list"}
  /\ \E throws \in BOOLEAN :
       call' = [call EXCEPT !.f = RcResume(store, call.f, throws),
                            !.threw = call.threw \/ throws]
  /\ UNCHANGED <<store, plugin>>

\* The host promise resolveVariableValue awaits resolves or rejects.
RvSettle ==
  /\ call.fn = "resolveVariableValue"
  /\ call.f.pc = "lookup"
  /\ \E throws \in BOOLEAN :
       call' = [call EXCEPT !.f = RvAfterLookup(store, call.f, throws),
                            !.threw = call.threw \/ throws]
  /\ UNCHANGED <<store, plugin>>

\* The caller has the result; the next call may start.
CallReturns ==
  /\ call.fn # "none"
  /\ call.f.pc \in {"done", "raised"}
  /\ call' = NoCall
  /\ UNCHANGED <<store, plugin>>

InitResolve ==
  /\ store \in ChainStores
  /\ call = NoCall
  /\ PluginIdle

NextResolve ==
  \/ CallResolveColorValue
  \/ CallResolveVariableValue
  \/ RcSettle
  \/ RvSettle
  \/ CallReturns

SpecResolve == InitResolve /\ [][NextResolve]_vars

\* ------------------------------------------------------------- claims on the resolvers
ResolveColorEnded == call.fn = "resolveColorValue" /\ call.f.pc \in {"done", "raised"}
ResolveColorDone == call.fn = "resolveColorValue" /\ call.f.pc = "done"
ResolveDisplayEnded == call.fn = "resolveVariableValue" /\ call.f.pc \in {"done", "raised"}
\* The call passes the variable's own raw value for the mode, as processVariableData does.
RawCall == call.arg[3] = ValueOf(store[call.arg[1]].valuesByMode, call.arg[2])

\* The direct colour at the end of the same-mode alias chain that starts at
\* variable v (every variable on it a COLOR variable with a value for m), or
\* Null when there is no such chain within n hops.
RECURSIVE ChainEnd(_, _, _, _)
ChainEnd(st, v, m, n) ==
  LET val == ValueOf(st[v].valuesByMode, m)
  IN  IF st[v].resolvedType # "COLOR" THEN Null
      ELSE IF IsColor(val) THEN val
      ELSE IF IsAlias(val) /\ n > 0 /\ val[2] \in DOMAIN st
      THEN ChainEnd(st, val[2], m, n - 1)
      ELSE Null

\* C1: for an acyclic alias chain A -> ... -> C of COLOR variables that all have
\* a value for mode m, C storing a direct colour, resolveColorValue(A, m, A's
\* raw value for m) returns exactly C's colour, whatever the chain's length
\* (provided the host lookups resolve).
C1_AliasChainResolves ==
  (/\ ResolveColorDone
   /\ ~call.threw
   /\ RawCall
   /\ ChainEnd(store, call.arg[1], call.arg[2], NumVars) # Null)
  => call.f.result = ChainEnd(store, call.arg[1], call.arg[2], NumVars)

\* A chain through every variable of the document has been resolved.
C1_Witness ==
  /\ ResolveColorDone
  /\ ~call.threw
  /\ RawCall
  /\ call.f.hops >= 2
  /\ ChainEnd(store, call.arg[1], call.arg[2], NumVars) # Null
  /\ call.f.result = ChainEnd(store, call.arg[1], call.arg[2], NumVars)

\* C2: when the value is an alias to a COLOR variable B that has no value for
\* the requested mode but has values, and the value of B's first mode is a
\* direct colour, resolveColorValue returns that colour.
C2_CrossModeFallback ==
  (/\ ResolveColorDone
   /\ ~call.threw
   /\ IsAlias(call.arg[3])
   /\ call.arg[3][2] \in DOMAIN store
   /\ store[call.arg[3][2]].resolvedType = "COLOR"
   /\ ~HasMode(store[call.arg[3][2]].valuesByMode, call.arg[2])
   /\ Len(store[call.arg[3][2]].valuesByMode) > 0
   /\ IsColor(store[call.arg[3][2]].valuesByMode[1][2]))
  => call.f.result = store[call.arg[3][2]].valuesByMode[1][2]

\* The fallback was taken on a target with two modes, neither the requested one.
C2_Witness ==
  /\ ResolveColorDone
  /\ ~call.threw
  /\ IsAlias(call.arg[3])
  /\ call.arg[3][2] \in DOMAIN store
  /\ store[call.arg[3][2]].resolvedType = "COLOR"
  /\ ~HasMode(store[call.arg[3][2]].valuesByMode, call.arg[2])
  /\ Len(store[call.arg[3][2]].valuesByMode) = 2
  /\ IsColor(store[call.arg[3][2]].valuesByMode[1][2])
  /\ call.f.result = store[call.arg[3][2]].valuesByMode[1][2]

\* The cases in which the claim C4 says null is returned; `other` says which
\* values count as "neither alias nor colour".
NullCase(val, other) ==
  \/ IsAbsent(val)
  \/ IsAlias(val) /\ val[2] \notin DOMAIN store
  \/ IsAlias(val) /\ val[2] \in DOMAIN store /\ store[val[2]].resolvedType # "COLOR"
  \/ call.threw
  \/ IsAlias(val) /\ val[2] \in DOMAIN store /\ store[val[2]].valuesByMode = <<>>
  \/ other

\* C4 as claimed: resolveColorValue never raises, and returns null for an absent
\* value, a dangling alias, a non-COLOR target, a host lookup that throws, a
\* target without values, and for every value that is neither alias nor colour.
C4_Original ==
  ResolveColorEnded =>
    /\ call.f.pc = "done"
    /\ NullCase(call.arg[3], ~IsAlias(call.arg[3]) /\ ~IsColor(call.arg[3]))
         => call.f.result = Null

\* C4 amended: as claimed, except that of the values that are neither alias nor
\* colour only those that are not a string containing '/' are sure to give
\* null; a string containing '/' gives null when it names no COLOR variable.
C4_NeverRaisesNullOnFailure ==
  ResolveColorEnded =>
    /\ call.f.pc = "done"
    /\ NullCase(call.arg[3],
                /\ ~IsAlias(call.arg[3])
                /\ ~IsColor(call.arg[3])
                /\ (IsSlashString(call.arg[3]) => FindColorByName(store, call.arg[3][2]) = 0))
         => call.f.result = Null

\* A host lookup threw below the top of an alias chain and null came back.
C4_Witness ==
  /\ ResolveColorDone
  /\ call.threw
  /\ call.f.hops >= 1
  /\ call.f.result = Null

\* s is name with every '/' replaced by '-' and nothing else changed.
Dashed(s, name) ==
  /\ Len(s) = Len(name)
  /\ ~Includes(s, "/")
  /\ \A i \in 1..Len(name) : IF name[i] = "/" THEN s[i] = "-" ELSE s[i] = name[i]

\* C5: resolveVariableValue never raises; it returns '' for an absent value, for
\* an alias the directly referenced variable's name with every '/' replaced by
\* '-', 'Unknown variable' when the lookup finds nothing and 'Error resolving
\* alias' when it throws, and any other value unchanged.
C5_DisplayValue ==
  ResolveDisplayEnded =>
    LET val == call.arg[3]
        res == call.f.result
    IN  /\ call.f.pc = "done"
        /\ IsAbsent(val) => res = EmptyString
        /\ (IsAlias(val) /\ call.threw) => res = ErrorResolvingAlias
        /\ (IsAlias(val) /\ ~call.threw /\ val[2] \notin DOMAIN store) => res = UnknownVariable
        /\ (IsAlias(val) /\ ~call.threw /\ val[2] \in DOMAIN store)
             => res[1] = "str" /\ Dashed(res[2], store[val[2]].name)
        /\ (~IsAbsent(val) /\ ~IsAlias(val)) => res = val

\* An alias to a variable whose name has two '/' and which is itself an alias
\* was displayed as that variable's dashed name.
C5_Witness ==
  /\ ResolveDisplayEnded
  /\ ~call.threw
  /\ call.arg[3] = Alias(2)
  /\ \E m \in StoredModes : IsAlias(ValueOf(store[2].valuesByMode, m))
  /\ call.f.result = Str(<<"a", "-", "y", "-", "z">>)

\* ------------------------------------------------------------- handler actions
\* Mutant: the empty result is not checked.
NoVariablesFound_Unchecked(filteredVariables) == FALSE

\* if (filteredVariables.length === 0) throw new Error('No variables found in selected groups')
NoVariablesFound(filteredVariables) == Len(filteredVariables) = 0

\* Mutant: the catch block notifies and posts nothing to the UI.
ReportFailure_NotifyOnly(message) ==
  /\ notified' = Append(notified, Notification(message, TRUE))
  /\ pc' = "done"
  /\ UNCHANGED posted

\* catch (error) of createVariablesTable: figma.notify and the 'error' message.
ReportFailure(message) ==
  /\ notified' = Append(notified, Notification(message, TRUE))
  /\ posted' = Append(posted, ErrorMessage(message))
  /\ pc' = "done"

\* The 'create-table' case when a required field is falsy.
MissingParameters ==
  /\ posted' = Append(posted, ErrorMessage("Missing required parameters for table creation"))
  /\ pc' = "done"
  /\ UNCHANGED notified

\* figma.ui.onmessage with message m, up to its first await: the switch on
\* msg.type. A type without a case leaves the switch at once.
Receive(m) ==
  /\ msg' = m
  /\ CASE m.type = "load-collections" -> pc' = "loadCollections" /\ UNCHANGED <<posted, notified>>
       [] m.type = "load-groups" ->
            /\ pc' = (IF Truthy(m.collectionId) THEN "loadGroups" ELSE "done")
            /\ UNCHANGED <<posted, notified>>
       [] m.type = "create-table" ->
            IF /\ Truthy(m.collectionId) /\ Truthy(m.collectionName)
               /\ m.modes.defined /\ m.groups.defined
            THEN pc' = "getCollection" /\ UNCHANGED <<posted, notified>>
            ELSE MissingParameters
       [] m.type = "save-settings" ->
            /\ pc' = (IF Truthy(m.settings) THEN "saveSettings" ELSE "done")
            /\ UNCHANGED <<posted, notified>>
       [] OTHER -> pc' = "done" /\ UNCHANGED <<posted, notified>>
  /\ UNCHANGED <<store, storage, fillCache, fontCache, canvas, call, tasks, table, closed, throwsLeft>>

\* A load-groups or create-table message arrives.
OnMessage ==
  /\ pc = "idle"
  /\ \E m \in Messages : Receive(m)

\* loadCollections after getLocalVariableCollectionsAsync and
\* getLocalVariablesAsync have settled: one entry per collection with the count
\* of its variables, or the error message of the catch block.
LoadCollections ==
  /\ pc = "loadCollections"
  /\ \E throws \in Rejections :
       /\ posted' = Append(posted,
            IF throws THEN ErrorMessage("Failed to load collections: host error")
            ELSE UiMessage("collections-loaded", "", CollectionsData(store), 0))
       /\ throwsLeft' = Spend(throws)
  /\ pc' = "done"
  /\ UNCHANGED <<store, storage, fillCache, fontCache, canvas, call, msg, tasks, table, notified, closed>>

\* saveUserSettings after clientStorage.setAsync has settled; a rejection is
\* caught and logged.
SaveSettings ==
  /\ pc = "saveSettings"
  /\ \E throws \in Rejections :
       /\ storage' = (IF throws THEN storage ELSE msg.settings)
       /\ throwsLeft' = Spend(throws)
  /\ pc' = "done"
  /\ UNCHANGED <<store, fillCache, fontCache, canvas, call, msg, tasks, table, posted, notified, closed>>

\* loadGroups after getLocalVariablesAsync has settled.
LoadGroups ==
  /\ pc = "loadGroups"
  /\ \E throws \in Rejections :
       /\ posted' = Append(posted,
            IF throws THEN ErrorMessage("Failed to load groups: host error")
            ELSE UiMessage("groups-loaded", "", GroupsLoaded(store, msg.collectionId).groups,
                           GroupsLoaded(store, msg.collectionId).totalVariables))
       /\ throwsLeft' = Spend(throws)
  /\ pc' = "done"
  /\ UNCHANGED <<store, storage, fillCache, fontCache, canvas, call, msg, tasks, table, notified, closed>>

\* getFilteredVariables after getVariableCollectionByIdAsync has settled.
GetCollection ==
  /\ pc = "getCollection"
  /\ \E throws \in Rejections :
       /\ throwsLeft' = Spend(throws)
       /\ IF throws THEN ReportFailure("host error")
          ELSE IF msg.collectionId \notin Collections THEN ReportFailure("Collection not found")
          ELSE pc' = "getVariables" /\ UNCHANGED <<posted, notified>>
  /\ UNCHANGED <<store, storage, fillCache, fontCache, canvas, call, msg, tasks, table, closed>>

\* getFilteredVariables after getLocalVariablesAsync has settled, and then
\* Promise.all(filteredVariables.map(processVariableData)): every call runs to
\* its first await.
GetVariables ==
  /\ pc = "getVariables"
  /\ \E throws \in Rejections :
       /\ throwsLeft' = Spend(throws)
       /\ LET filteredVariables == FilteredVariables(store, msg.collectionId, msg.groups.value)
          IN  IF throws THEN ReportFailure("host error") /\ UNCHANGED tasks
              ELSE IF NoVariablesFound(filteredVariables)
              THEN ReportFailure("No variables found in selected groups") /\ UNCHANGED tasks
              ELSE /\ tasks' = Map(filteredVariables,
                                   LAMBDA v : RunModes(store, msg.modes.value, NewTask(v)))
                   /\ pc' = "process"
                   /\ UNCHANGED <<posted, notified>>
  /\ UNCHANGED <<store, storage, fillCache, fontCache, canvas, call, msg, table, closed>>

\* The host promise one processVariableData call awaits settles. An exception
\* that leaves the call rejects Promise.all and reaches the catch block.
TaskSettle ==
  /\ pc = "process"
  /\ \E k \in 1..Len(tasks), throws \in Rejections :
       /\ tasks[k].stage \in {"rv", "rc", "alias"}
       /\ throwsLeft' = Spend(throws)
       /\ LET t == TaskResume(store, msg.modes.value, tasks[k], throws)
          IN  /\ tasks' = [tasks EXCEPT ![k] = t]
              /\ IF t.stage = "raised" THEN ReportFailure("host error")
                 ELSE UNCHANGED <<pc, posted, notified>>
  /\ UNCHANGED <<store, storage, fillCache, fontCache, canvas, call, msg, table, closed>>

\* Promise.all resolves: the records are sorted and createTableFrame is entered
\* (the table frame exists, the records are grouped, the blocks are being built).
CreateTableFrame ==
  /\ pc = "process"
  /\ \A k \in 1..Len(tasks) : tasks[k].stage = "done"
  /\ LET sortedVariablesData ==
           sortVariablesByPrefixAndName(Map(tasks, LAMBDA t : VariableData(store, t)))
     IN  table' = [entered |-> TRUE, records |-> sortedVariablesData,
                   groups |-> groupVariablesByPrefix(sortedVariablesData)]
  /\ pc' = "createTable"
  /\ UNCHANGED <<store, storage, fillCache, fontCache, canvas, call, msg, tasks, posted, notified, closed, throwsLeft>>

\* createTableFrame returns or throws: success notification and closePlugin, or
\* the catch block.
TableFrameSettles ==
  /\ pc = "createTable"
  /\ \E throws \in Rejections :
       /\ throwsLeft' = Spend(throws)
       /\ IF throws THEN ReportFailure("host error") /\ UNCHANGED closed
          ELSE /\ notified' = Append(notified, Notification("Variables table created successfully!", FALSE))
               /\ closed' = TRUE
               /\ pc' = "done"
               /\ UNCHANGED posted
  /\ UNCHANGED <<store, storage, fillCache, fontCache, canvas, call, msg, tasks, table>>

\* The handler has returned and the plugin is open: the next message. What the
\* finished request posted and notified is dropped.
HandlerReturns ==
  /\ pc = "done"
  /\ ~closed
  /\ pc' = "idle"
  /\ msg' = NoMessage
  /\ tasks' = <<>>
  /\ table' = NoTable
  /\ posted' = <<>>
  /\ notified' = <<>>
  /\ throwsLeft' = MaxThrows
  /\ UNCHANGED <<store, storage, fillCache, fontCache, canvas, call, closed>>

Init ==
  /\ store \in AliasDocs \cup NameDocs
  /\ call = NoCall
  /\ PluginIdle

Next ==
  \/ OnMessage
  \/ LoadGroups
  \/ GetCollection
  \/ GetVariables
  \/ TaskSettle
  \/ CreateTableFrame
  \/ TableFrameSettles
  \/ HandlerReturns

Spec == Init /\ [][Next]_vars

\* ------------------------------------------------------------- claims on the message handler
\* The request in progress is a create-table request with its four fields.
TableRequest ==
  /\ msg.type = "create-table"
  /\ msg.collectionId \notin {"undefined", ""}
  /\ msg.collectionName \notin {"undefined", ""}
  /\ msg.modes.defined
  /\ msg.groups.defined

\* No host call of the request in progress has rejected.
NoRejection == throwsLeft = MaxThrows

\* n alias hops from variable v under mode m all lead to a COLOR variable
\* whose value for m is again an alias: with n = NumVars a variable repeats.
RECURSIVE AliasHops(_, _, _, _)
AliasHops(st, v, m, n) ==
  IF n = 0 THEN IsAlias(ValueOf(st[v].valuesByMode, m))
  ELSE LET val == ValueOf(st[v].valuesByMode, m)
       IN  /\ IsAlias(val)
           /\ val[2] \in DOMAIN st
           /\ st[val[2]].resolvedType = "COLOR"
           /\ AliasHops(st, val[2], m, n - 1)
OnAliasCycle(st, v, m) == st[v].resolvedType = "COLOR" /\ AliasHops(st, v, m, NumVars)

\* C3: when a COLOR variable of the request lies on a cyclic alias chain for a
\* requested mode (every variable of the chain has a value for the mode) and
\* no host call rejects, resolveColorValue never returns, and the create-table
\* request reaches neither its success nor its error outcome.
C3_CycleNeverReturns ==
  (/\ TableRequest
   /\ tasks # <<>>
   /\ NoRejection
   /\ \E k \in 1..Len(tasks), i \in 1..Len(msg.modes.value) :
        OnAliasCycle(store, tasks[k].var, msg.modes.value[i]))
  => /\ pc = "process"
     /\ posted = <<>>
     /\ notified = <<>>
     /\ ~closed
     /\ ~table.entered

\* The recursion has made more calls than the document has variables and is
\* still suspended at a lookup.
C3_Witness ==
  /\ pc = "process"
  /\ NoRejection
  /\ \E k \in 1..Len(tasks) :
       /\ tasks[k].stage = "rc"
       /\ tasks[k].f.pc = "lookup"
       /\ tasks[k].f.hops = MaxHops
       /\ OnAliasCycle(store, tasks[k].var, msg.modes.value[tasks[k].mi])

\* The keys of obj are exactly the requested mode ids, each once.
OneEntryPerMode(obj, modes) ==
  /\ {obj[i][1] : i \in 1..Len(obj)} = {modes[i] : i \in 1..Len(modes)}
  /\ Len(obj) = Cardinality({modes[i] : i \in 1..Len(modes)})

RecordHasItsModes(d, modes) ==
  /\ OneEntryPerMode(d.values, modes)
  /\ d.colorValues.defined = (d.variableType = "COLOR")
  /\ d.colorValues.defined => OneEntryPerMode(d.colorValues.entries, modes)
  /\ \A i \in 1..Len(modes) :
       ~HasMode(store[d.variable].valuesByMode, modes[i])
       => /\ ValueOf(d.values, modes[i]) = EmptyString
          /\ d.colorValues.defined => ValueOf(d.colorValues.entries, modes[i]) = Null

\* C6: every record processVariableData returns has in values, and for a COLOR
\* variable in colorValues, exactly one entry per requested mode id and none
\* for another mode; a mode the variable has no value for has '' and null.
C6_OneEntryPerRequestedMode ==
  /\ \A k \in 1..Len(tasks) :
       tasks[k].stage = "done" => RecordHasItsModes(VariableData(store, tasks[k]), msg.modes.value)
  /\ \A i \in 1..Len(table.records) : RecordHasItsModes(table.records[i], msg.modes.value)

\* A COLOR record of the table with a requested mode it has no value for.
C6_Witness ==
  /\ table.entered
  /\ Len(msg.modes.value) = 2
  /\ \E i \in 1..Len(table.records) :
       /\ table.records[i].variableType = "COLOR"
       /\ HasMode(store[table.records[i].variable].valuesByMode, msg.modes.value[1])
       /\ ~HasMode(store[table.records[i].variable].valuesByMode, msg.modes.value[2])
       /\ ValueOf(table.records[i].colorValues.entries, msg.modes.value[2]) = Null

\* C7: the alias binding of a COLOR record for a requested mode is the variable
\* itself when the raw value is not an alias, the directly referenced variable
\* when the lookup finds it, and null when the lookup finds nothing or throws.
C7_OneHopAliasBinding ==
  \A k \in 1..Len(tasks) :
    (tasks[k].stage = "done" /\ store[tasks[k].var].resolvedType = "COLOR")
    => \A i \in 1..Len(msg.modes.value) :
         LET m == msg.modes.value[i]
             rawValue == ValueOf(store[tasks[k].var].valuesByMode, m)
             bound == ValueOf(tasks[k].aliasVariables, m)
         IN  /\ HasMode(tasks[k].aliasVariables, m)
             /\ ~IsAlias(rawValue) => bound = tasks[k].var
             /\ (IsAlias(rawValue) /\ rawValue[2] \notin DOMAIN store) => bound = 0
             /\ (IsAlias(rawValue) /\ rawValue[2] \in DOMAIN store)
                => \/ bound = rawValue[2]
                   \/ bound = 0 /\ ~NoRejection

\* A finished record bound to a variable that is itself an alias of a third.
C7_Witness ==
  \E k \in 1..Len(tasks), i \in 1..Len(msg.modes.value) :
    LET m == msg.modes.value[i]
        rawValue == ValueOf(store[tasks[k].var].valuesByMode, m)
    IN  /\ tasks[k].stage = "done"
        /\ store[tasks[k].var].resolvedType = "COLOR"
        /\ IsAlias(rawValue)
        /\ rawValue[2] \in DOMAIN store
        /\ \E j \in 1..Len(store[rawValue[2]].valuesByMode) :
             /\ IsAlias(store[rawValue[2]].valuesByMode[j][2])
             /\ store[rawValue[2]].valuesByMode[j][2][2] \notin {rawValue[2], tasks[k].var}
        /\ ValueOf(tasks[k].aliasVariables, m) = rawValue[2]

RECURSIVE SumCounts(_)
SumCounts(groups) ==
  IF groups = <<>> THEN 0 ELSE groups[1].count + SumCounts(Tail(groups))

\* The places <<g, j>> of the table groups that hold variable v.
PlacesOf(groups, v) ==
  {p \in UNION {{<<g, j>> : j \in 1..Len(groups[g].variables)} : g \in 1..Len(groups)} :
     groups[p[1]].variables[p[2]] = v}

\* C8: the counts of the groups loadGroups reports add up to totalVariables,
\* the number of variables of the collection; every record handed to
\* groupVariablesByPrefix is in exactly one table group, exactly once.
C8_GroupingLosesNothing ==
  /\ \A i \in 1..Len(posted) :
       posted[i].type = "groups-loaded"
       => /\ SumCounts(posted[i].groups) = posted[i].totalVariables
          /\ posted[i].totalVariables =
               Cardinality({v \in DOMAIN store : store[v].variableCollectionId = msg.collectionId})
  /\ \A i \in 1..Len(table.records) :
       Cardinality(PlacesOf(table.groups, table.records[i].variable)) = 1

\* A table with a group of two records and a record whose name begins with '/'.
C8_Witness ==
  /\ table.entered
  /\ \E g \in 1..Len(table.groups) : Len(table.groups[g].variables) >= 2
  /\ \E i \in 1..Len(table.records) :
       /\ table.records[i].name[1] = "/"
       /\ Cardinality(PlacesOf(table.groups, table.records[i].variable)) = 1

\* A selected group entry matches a variable name, stated on the characters of
\* the name: an individual entry by the full name, a prefix entry by the text
\* before the first '/', which must hold a character other than white space.
SelectedBy(name, group) ==
  \/ group.isIndividual /\ group.variableName = name
  \/ /\ ~group.isIndividual
     /\ \E k \in 1..Len(name) :
          /\ name[k] = "/"
          /\ \A j \in 1..(k - 1) : name[j] # "/"
          /\ \E j \in 1..(k - 1) : name[j] # " "
          /\ SubSeq(name, 1, k - 1) = group.prefix
Selected(st, collectionId, groups) ==
  {v \in DOMAIN st : /\ st[v].variableCollectionId = collectionId
                     /\ \E g \in groups : SelectedBy(st[v].name, g)}

NoVariablesFoundMessage == ErrorMessage("No variables found in selected groups")

\* C9: getFilteredVariables returns exactly the variables of the chosen
\* collection that match a selected group, each once; when none matches (the
\* collection exists, no host call rejects) the request ends with 'No
\* variables found in selected groups'.
C9_FilterIsExact ==
  /\ tasks # <<>>
     => /\ \A j, k \in 1..Len(tasks) : j # k => tasks[j].var # tasks[k].var
        /\ {tasks[k].var : k \in 1..Len(tasks)}
             = Selected(store, msg.collectionId, msg.groups.value)
  /\ (TableRequest /\ pc = "done" /\ msg.collectionId \in Collections /\ NoRejection)
     => ((Selected(store, msg.collectionId, msg.groups.value) = {})
         <=> (posted = <<NoVariablesFoundMessage>> /\ tasks = <<>>))

\* The prefix entry 'a' is selected, a variable named 'a' is in the collection
\* and is not among the filtered variables.
C9_Witness ==
  /\ tasks # <<>>
  /\ PrefixGroup(<<"a">>, 0) \in msg.groups.value
  /\ \E v \in DOMAIN store :
       /\ store[v].name = <<"a">>
       /\ store[v].variableCollectionId = msg.collectionId
       /\ \A k \in 1..Len(tasks) : tasks[k].var # v

\* The request in progress cannot produce a table.
FatalRequest ==
  /\ msg.type = "create-table"
  /\ \/ ~TableRequest
     \/ msg.collectionId \notin Collections
     \/ Selected(store, msg.collectionId, msg.groups.value) = {}

\* C10: a create-table request that lacks collectionId, collectionName, modes
\* or groups, names an unknown collection, or matches no variable never enters
\* createTableFrame, and when its handler is done an 'error' message was posted.
C10_FatalStopsBeforeTable ==
  FatalRequest
  => /\ ~table.entered
     /\ ~closed
     /\ tasks = <<>>
     /\ pc \notin {"process", "createTable"}
     /\ pc = "done" => \E i \in 1..Len(posted) : posted[i].type = "error"

\* A complete request on a known collection whose groups match nothing is done.
C10_Witness ==
  /\ pc = "done"
  /\ TableRequest
  /\ msg.collectionId \in Collections
  /\ msg.groups.value # {}
  /\ Selected(store, msg.collectionId, msg.groups.value) = {}
  /\ posted = <<NoVariablesFoundMessage>>
  /\ notified = <<Notification("No variables found in selected groups", TRUE)>>
  /\ ~table.entered

\* The handler of a create-table request is done after one of the three fatal
\* failures: a required field is missing, the collection is unknown, or no
\* variable of the collection is in a selected group (no host call rejected).
FatalFailureDone ==
  /\ pc = "done"
  /\ msg.type = "create-table"
  /\ \/ ~TableRequest
     \/ /\ NoRejection
        /\ \/ msg.collectionId \notin Collections
           \/ Selected(store, msg.collectionId, msg.groups.value) = {}

\* C11: each of the three fatal failures of table creation is surfaced as
\* exactly one error notification (figma.notify) plus exactly one 'error'
\* message to the UI.
C11_OneNotificationOneMessage ==
  FatalFailureDone
  => /\ Len(notified) = 1
     /\ notified[1].error
     /\ Len(posted) = 1
     /\ posted[1].type = "error"

\* ------------------------------------------------------------- sorting and grouping, called directly
\* Documents of one collection whose variables have distinct names, in any
\* enumeration order of the host.
SortNamePool ==
  {<<"b", "/", "x">>, <<"a", "/", "z">>, <<"a", "/", "a">>, <<"A", "/", "a">>,
   <<"A", "/", "q">>, <<"a">>, <<"/", "x">>, <<"/", "y">>}
RECURSIVE SortDocsOf(_)
SortDocsOf(n) ==
  IF n = 0 THEN {<<>>}
  ELSE {Append(p[1], Variable(p[2], "STRING", << <<"m1", Str(<<"t">>)>> >>, "c1"))
          : p \in {q \in SortDocsOf(n - 1) \X SortNamePool :
                     \A i \in 1..Len(q[1]) : q[1][i].name # q[2]}}
SortDocs == SortDocsOf(NumVars)

\* The records Promise.all hands to sortVariablesByPrefixAndName for document
\* st: one per variable, in the order of the host's enumeration.
RecordsOf(st) == [i \in 1..Len(st) |-> VariableData(st, RunModes(st, <<>>, NewTask(i)))]

\* sortVariablesByPrefixAndName on the records of the document.
SortRecords ==
  /\ pc = "idle"
  /\ table' = [entered |-> FALSE, records |-> sortVariablesByPrefixAndName(RecordsOf(store)),
               groups |-> <<>>]
  /\ pc' = "sorted"
  /\ UNCHANGED <<store, storage, fillCache, fontCache, canvas, call, msg, tasks, posted, notified, closed, throwsLeft>>

\* groupVariablesByPrefix on the sorted records.
GroupRecords ==
  /\ pc = "sorted"
  /\ table' = [table EXCEPT !.groups = groupVariablesByPrefix(table.records)]
  /\ pc' = "grouped"
  /\ UNCHANGED <<store, storage, fillCache, fontCache, canvas, call, msg, tasks, posted, notified, closed, throwsLeft>>

\* loadGroups on the collection of the document, its host call resolving.
ListGroups ==
  /\ pc = "grouped"
  /\ posted' = <<UiMessage("groups-loaded", "", GroupsLoaded(store, "c1").groups,
                           GroupsLoaded(store, "c1").totalVariables)>>
  /\ pc' = "listed"
  /\ UNCHANGED <<store, storage, fillCache, fontCache, canvas, call, msg, tasks, table, notified, closed, throwsLeft>>

InitSort ==
  /\ store \in SortDocs
  /\ call = NoCall
  /\ PluginIdle

NextSort ==
  \/ SortRecords
  \/ GroupRecords
  \/ ListGroups

SpecSort == InitSort /\ [][NextSort]_vars

\* ------------------------------------------------------------- claims on sorting and grouping
Names(records) == [i \in 1..Len(records) |-> records[i].name]

\* The text of a name before its first '/', the whole name when it has none.
BeforeSlash(name) ==
  IF \E k \in 1..Len(name) : name[k] = "/"
  THEN SubSeq(name, 1, (CHOOSE k \in 1..Len(name) :
                          name[k] = "/" /\ \A j \in 1..(k - 1) : name[j] # "/") - 1)
  ELSE name

\* a is before or equal to b in dictionary order, upper and lower case alike.
LeqIgnoringCase(a, b) ==
  \/ /\ Len(a) <= Len(b)
     /\ \A i \in 1..Len(a) : Rank(a[i]) = Rank(b[i])
  \/ \E i \in 1..Min(Len(a), Len(b)) :
       /\ Rank(a[i]) < Rank(b[i])
       /\ \A j \in 1..(i - 1) : Rank(a[j]) = Rank(b[j])
KeyLeq(a, b) ==
  /\ LeqIgnoringCase(BeforeSlash(a), BeforeSlash(b))
  /\ LeqIgnoringCase(BeforeSlash(b), BeforeSlash(a)) => LeqIgnoringCase(a, b)

\* Where a name stands in a sequence of distinct names.
PlaceOf(names, name) == CHOOSE i \in 1..Len(names) : names[i] = name
\* The document enumerates b/x, a/z, a/a in this order.
ExampleGiven ==
  /\ \A n \in {<<"b", "/", "x">>, <<"a", "/", "z">>, <<"a", "/", "a">>} :
       \E i \in 1..Len(store) : store[i].name = n
  /\ PlaceOf(Names(store), <<"b", "/", "x">>) < PlaceOf(Names(store), <<"a", "/", "z">>)
  /\ PlaceOf(Names(store), <<"a", "/", "z">>) < PlaceOf(Names(store), <<"a", "/", "a">>)

\* C12: sortVariablesByPrefixAndName returns a permutation of its input in
\* non-decreasing order of (text before the first '/', then full name), both
\* compared ignoring case; b/x, a/z, a/a comes out as a/a, a/z, b/x.
C12_SortedPermutation ==
  pc # "idle"
  => /\ Len(table.records) = Len(store)
     /\ \A v \in DOMAIN store :
          Cardinality({i \in 1..Len(table.records) : table.records[i].variable = v}) = 1
     /\ \A i \in 1..Len(table.records) :
          table.records[i] = RecordsOf(store)[table.records[i].variable]
     /\ \A i, j \in 1..Len(table.records) :
          i < j => KeyLeq(table.records[i].name, table.records[j].name)
     /\ ExampleGiven
        => /\ PlaceOf(Names(table.records), <<"a", "/", "a">>)
                < PlaceOf(Names(table.records), <<"a", "/", "z">>)
           /\ PlaceOf(Names(table.records), <<"a", "/", "z">>)
                < PlaceOf(Names(table.records), <<"b", "/", "x">>)

\* The example of the claim has been sorted.
C12_Witness ==
  /\ pc = "sorted"
  /\ ExampleGiven
  /\ \E i \in 1..(Len(table.records) - 2) :
       SubSeq(Names(table.records), i, i + 2)
         = <<<<"a", "/", "a">>, <<"a", "/", "z">>, <<"b", "/", "x">>>>

\* The enumeration orders the host may give the variables of document st.
Reorderings(st) ==
  {q \in SortDocs : {q[i] : i \in 1..Len(q)} = {st[i] : i \in 1..Len(st)}}

\* The places of the records of table group g in the sorted sequence.
PlacesInRecords(g) ==
  {i \in 1..Len(table.records) :
     \E j \in 1..Len(table.groups[g].variables) :
       table.groups[g].variables[j] = table.records[i].variable}

\* C13: the sorted record sequence depends only on the set of variables: every
\* enumeration order of the same variables gives the same sequence, and the
\* records of one table group are adjacent in it.
C13_OrderIndependent ==
  /\ pc # "idle"
     => \A q \in Reorderings(store) :
          Names(sortVariablesByPrefixAndName(RecordsOf(q))) = Names(table.records)
  /\ pc \in {"grouped", "listed"}
     => \A g \in 1..Len(table.groups) :
          \A i, k \in PlacesInRecords(g) :
            \A j \in 1..Len(table.records) : (i < j /\ j < k) => j \in PlacesInRecords(g)

\* Two variables are reported under one entry of the group list of loadGroups.
SameListedGroup(groups, a, b) ==
  \E e \in 1..Len(groups) : SelectedBy(a, groups[e]) /\ SelectedBy(b, groups[e])

\* Two variables are in one group of the table.
SameTableGroup(groups, v, w) ==
  \E g \in 1..Len(groups) :
    /\ \E j \in 1..Len(groups[g].variables) : groups[g].variables[j] = v
    /\ \E j \in 1..Len(groups[g].variables) : groups[g].variables[j] = w

\* C14: two variables are in the same table group exactly when loadGroups
\* reports them under the same group entry.
C14_SameGroupingKey ==
  pc = "listed"
  => \A v, w \in DOMAIN store :
       SameTableGroup(table.groups, v, w)
         <=> SameListedGroup(posted[1].groups, store[v].name, store[w].name)

\* ------------------------------------------------------------- createTableFrame, group frame by group frame
\* Mutant: the display value is preferred to the resolved colour.
determineColorForIndicator_ValueFirst(value, type, colorValue) ==
  IF type # "COLOR" THEN Null
  ELSE IF IsColor(value) THEN value
  ELSE IF IsColor(colorValue) THEN colorValue
  ELSE Null

\* determineColorForIndicator(value, type, colorValue)
determineColorForIndicator(value, type, colorValue) ==
  IF type # "COLOR" THEN Null
  ELSE IF IsColor(colorValue) THEN colorValue
  ELSE IF IsColor(value) THEN value
  ELSE Null

\* createValueCell: the colour of the indicator it appends, Null when it
\* appends none.
createValueCell(value, type, colorValue, showSwatches) ==
  LET colorForCircle == determineColorForIndicator(value, type, colorValue)
  IN  IF colorForCircle # Null /\ showSwatches THEN colorForCircle ELSE Null

\* A row frame: the record it shows, its corner rounding, its indicator.
Row(v, top, bottom, swatch) ==
  [variable |-> v, topRadius |-> top, bottomRadius |-> bottom, swatch |-> swatch]

\* createMainHeaderRow, createThemeHeaderRow: only the top corners are rounded.
HeaderRow == [topRadius |-> TRUE, bottomRadius |-> FALSE]

\* createMainDataRow: the bottom corners are rounded when isLast.
createMainDataRow(variableData, isLast) == Row(variableData.variable, FALSE, isLast, Null)

\* Mutant: every value container is rounded at the bottom.
createThemeDataRow_RoundsEvery(variable, modeId, isLast, showSwatches) ==
  Row(variable.variable, FALSE, TRUE, Null)

\* createThemeDataRow: the value cell of the mode in a container, rounded
\* at the bottom when isLast.
createThemeDataRow(variable, modeId, isLast, showSwatches) ==
  LET value == ValueOf(variable.values, modeId)
      colorValue == IF variable.colorValues.defined
                    THEN ValueOf(variable.colorValues.entries, modeId) ELSE Undefined
  IN  Row(variable.variable, FALSE, isLast,
          createValueCell(value, variable.variableType, colorValue, showSwatches))

\* Mutant: the loop ends at the first row that raises (break for continue).
createVariableGroup_StopsAtFailure(prefix, variables, type, modeId, failed, showSwatches) ==
  LET built == SelectSeq([i \in 1..Len(variables) |-> i],
                         LAMBDA i : \A j \in 1..i : j \notin failed)
  IN  [prefix |-> prefix,
       header |-> HeaderRow,
       rows |-> [k \in 1..Len(built) |->
                   Row(variables[built[k]].variable, FALSE, built[k] = Len(variables), Null)]]

\* createVariableGroup: the group frame with its header and the rows that were
\* built; failed holds the indices i whose row construction raised.
createVariableGroup(prefix, variables, type, modeId, failed, showSwatches) ==
  LET built == SelectSeq([i \in 1..Len(variables) |-> i], LAMBDA i : i \notin failed)
  IN  [prefix |-> prefix,
       header |-> HeaderRow,
       rows |-> [k \in 1..Len(built) |->
                   IF type = "main"
                   THEN createMainDataRow(variables[built[k]], built[k] = Len(variables))
                   ELSE createThemeDataRow(variables[built[k]], modeId,
                                           built[k] = Len(variables), showSwatches)]]

\* The record of the table that describes variable v.
RecordOf(v) == table.records[CHOOSE i \in 1..Len(table.records) : table.records[i].variable = v]

\* The blocks of the table in the order they are built: the main block, then
\* one block per requested mode.
BlockPlan == <<[kind |-> "main", mode |-> "none"]>>
             \o [i \in 1..Len(msg.modes.value) |-> [kind |-> "theme", mode |-> msg.modes.value[i]]]

\* Every block of the plan holds all its group frames.
AllBlocksBuilt ==
  /\ Len(canvas.blocks) = Len(BlockPlan)
  /\ Len(canvas.blocks[Len(canvas.blocks)].groups) = Len(table.groups)

\* Sets of row indices of a group of n records that may raise.
RowFailures(n) == {F \in SUBSET (1..n) : Cardinality(F) <= throwsLeft}

\* One createVariableGroup call of createMainVariablesTable or
\* createThemeVariablesTables: the next group frame of the block being built (a
\* new block when the last one is complete). The header raising ends
\* createTableFrame in the catch block of createVariablesTable; a row raising is
\* skipped.
BuildGroup ==
  /\ pc = "createTable"
  /\ ~AllBlocksBuilt
  /\ LET opens == \/ canvas.blocks = <<>>
                  \/ Len(canvas.blocks[Len(canvas.blocks)].groups) = Len(table.groups)
         b == IF opens THEN Len(canvas.blocks) + 1 ELSE Len(canvas.blocks)
         g == IF opens THEN 1 ELSE Len(canvas.blocks[b].groups) + 1
         variables == [j \in 1..Len(table.groups[g].variables) |->
                         RecordOf(table.groups[g].variables[j])]
     IN  \/ /\ throwsLeft > 0
            /\ throwsLeft' = throwsLeft - 1
            /\ ReportFailure("host error")
            /\ UNCHANGED canvas
         \/ \E failed \in RowFailures(Len(variables)) :
              LET frame == createVariableGroup(table.groups[g].prefix, variables,
                                               BlockPlan[b].kind, BlockPlan[b].mode,
                                               failed, canvas.showSwatches)
              IN  /\ canvas' =
                       [canvas EXCEPT !.blocks =
                          IF opens
                          THEN Append(@, [kind |-> BlockPlan[b].kind, mode |-> BlockPlan[b].mode,
                                          groups |-> <<frame>>])
                          ELSE [@ EXCEPT ![b].groups = Append(@, frame)]]
                  /\ throwsLeft' = throwsLeft - Cardinality(failed)
                  /\ UNCHANGED <<pc, posted, notified>>
  /\ UNCHANGED <<store, storage, fillCache, fontCache, call, msg, tasks, table, closed>>

\* The blocks are appended, positionTableInViewport runs; then the success
\* notification and closePlugin, or the catch block.
FinishTable == AllBlocksBuilt /\ TableFrameSettles

\* A processVariableData call run to its return, every host call resolving.
RECURSIVE FinishedTask(_, _, _)
FinishedTask(st, modes, t) ==
  IF t.stage = "done" THEN t ELSE FinishedTask(st, modes, TaskResume(st, modes, t, FALSE))

\* Documents and requests of the rendering runs: three variables of collection
\* "c1" named from a/x, a/y, b, /x in any order; one or two requested modes;
\* all groups or only group 'a' selected.
RenderDocs ==
  {st \in NameDocs :
     \A i \in 1..Len(st) :
       /\ st[i].name \in {<<"a", "/", "x">>, <<"a", "/", "y">>, <<"b">>, <<"/", "x">>}
       /\ st[i].variableCollectionId = "c1"}
RenderMessages ==
  {Message("create-table", "c1", "Colors", Given(modes), Given(groups))
     : modes \in {<<"m1">>, <<"m1", "m3">>},
       groups \in {{PrefixGroup(<<"a">>, 0)},
                   {PrefixGroup(<<"a">>, 0), IndividualGroup(<<"b">>), IndividualGroup(<<"/", "x">>)}}}

\* The request is where Promise.all has resolved: every record is built.
InitRender ==
  /\ store \in RenderDocs
  /\ storage = "undefined"
  /\ fillCache = <<>>
  /\ fontCache = <<>>
  /\ msg \in RenderMessages
  /\ FilteredVariables(store, msg.collectionId, msg.groups.value) # <<>>
  /\ tasks = [k \in 1..Len(FilteredVariables(store, msg.collectionId, msg.groups.value)) |->
                FinishedTask(store, msg.modes.value,
                  RunModes(store, msg.modes.value,
                    NewTask(FilteredVariables(store, msg.collectionId, msg.groups.value)[k])))]
  /\ pc = "process"
  /\ call = NoCall
  /\ table = NoTable
  /\ posted = <<>>
  /\ notified = <<>>
  /\ closed = FALSE
  /\ canvas \in {[showSwatches |-> sw, blocks |-> <<>>] : sw \in BOOLEAN}
  /\ throwsLeft = MaxThrows

NextRender ==
  \/ CreateTableFrame
  \/ BuildGroup
  \/ FinishTable

SpecRender == InitRender /\ [][NextRender]_vars

\* ------------------------------------------------------------- claims on the rendered table
\* The group frames on the canvas, as <<block, group>> places.
Frames ==
  UNION {{<<b, g>> : g \in 1..Len(canvas.blocks[b].groups)} : b \in 1..Len(canvas.blocks)}
FrameAt(p) == canvas.blocks[p[1]].groups[p[2]]

\* C15 as stated: in every rendered group a single data row is rounded at the
\* top and at the bottom; of N > 1 data rows exactly the first is rounded at
\* the top and exactly the last at the bottom.
C15_Original ==
  \A p \in Frames :
    LET rows == FrameAt(p).rows
    IN  \A k \in 1..Len(rows) :
          /\ rows[k].topRadius = (k = 1)
          /\ rows[k].bottomRadius = (k = Len(rows))

\* C15: in every rendered group the header row is rounded at the top only, no
\* data row is rounded at the top, and a data row is rounded at the bottom
\* exactly when it shows the last record of the group.
C15_HeaderTopLastRecordBottom ==
  \A p \in Frames :
    LET rows == FrameAt(p).rows
        members == table.groups[p[2]].variables
    IN  /\ FrameAt(p).header.topRadius
        /\ ~FrameAt(p).header.bottomRadius
        /\ \A k \in 1..Len(rows) :
             /\ ~rows[k].topRadius
             /\ rows[k].bottomRadius = (rows[k].variable = members[Len(members)])
             /\ rows[k].bottomRadius => k = Len(rows)

\* A table is finished with a group of one data row and a group of two, in a
\* mode block, every row built.
C15_Witness ==
  /\ closed
  /\ \E p, q \in Frames :
       /\ p[1] > 1 /\ q[1] = p[1]
       /\ Len(FrameAt(p).rows) = 1
       /\ FrameAt(p).rows[1].bottomRadius
       /\ Len(FrameAt(q).rows) = 2
       /\ ~FrameAt(q).rows[1].bottomRadius
       /\ FrameAt(q).rows[2].bottomRadius

\* The number of records of the group of frame p that have no row in it.
Skipped(p) == Len(table.groups[p[2]].variables) - Len(FrameAt(p).rows)
RECURSIVE SkippedIn(_)
SkippedIn(P) ==
  IF P = {} THEN 0 ELSE LET p == CHOOSE q \in P : TRUE IN Skipped(p) + SkippedIn(P \ {p})

\* The host calls of the request that have raised.
Raises == MaxThrows - throwsLeft

\* Where variable v stands among the members of a group.
MemberPlace(members, v) == CHOOSE j \in 1..Len(members) : members[j] = v

\* C16: a row whose construction raises is the only thing skipped: every group
\* frame holds its header and the rows of its other records in sorted order,
\* one record is missing per raise, raised rows alone never give the error
\* outcome, and on success every block holds every group.
C16_RowFailureSkipsOnlyTheRow ==
  /\ \A p \in Frames :
       LET rows == FrameAt(p).rows
           members == table.groups[p[2]].variables
       IN  /\ FrameAt(p).header = HeaderRow
           /\ FrameAt(p).prefix = table.groups[p[2]].prefix
           /\ \A k \in 1..Len(rows) : \E j \in 1..Len(members) : members[j] = rows[k].variable
           /\ \A k, l \in 1..Len(rows) :
                k < l => MemberPlace(members, rows[k].variable) < MemberPlace(members, rows[l].variable)
  /\ SkippedIn(Frames) <= Raises
  /\ posted = <<>> => SkippedIn(Frames) = Raises
  /\ posted # <<>> => SkippedIn(Frames) < Raises
  /\ closed => /\ posted = <<>>
               /\ Len(canvas.blocks) = 1 + Len(msg.modes.value)
               /\ \A b \in 1..Len(canvas.blocks) :
                    Len(canvas.blocks[b].groups) = Len(table.groups)

\* The table is finished with success although the first row of the first
\* group of the main block raised; that group has its second row, and a later
\* group and a mode block exist.
C16_Witness ==
  /\ closed
  /\ notified = <<Notification("Variables table created successfully!", FALSE)>>
  /\ Len(table.groups) >= 2
  /\ Len(canvas.blocks) >= 2
  /\ Len(table.groups[1].variables) = 2
  /\ Len(canvas.blocks[1].groups[1].rows) = 1
  /\ canvas.blocks[1].groups[1].rows[1].variable = table.groups[1].variables[2]
  /\ Len(canvas.blocks[2].groups[1].rows) = 2

\* The variables the rows of a group frame describe, in row order.
RowVariables(frame) == [k \in 1..Len(frame.rows) |-> frame.rows[k].variable]

\* C17: every mode block is parallel to the main block: the same groups in the
\* same order, and row i of a group describes the same variable in both, in
\* every run, also when a row construction fails.
C17_ModeBlocksParallel ==
  \A b \in 2..Len(canvas.blocks) :
    /\ canvas.blocks[b].kind = "theme"
    /\ \A g \in 1..Len(canvas.blocks[b].groups) :
         /\ canvas.blocks[b].groups[g].prefix = canvas.blocks[1].groups[g].prefix
         /\ RowVariables(canvas.blocks[b].groups[g]) = RowVariables(canvas.blocks[1].groups[g])

\* ------------------------------------------------------------- the message handler, scheduled
\* The event loop runs every continuation whose host promise has settled, and
\* every host promise settles: a handler that is in progress takes a step, and
\* a handler that is done returns. The UI need not send a message. Weak
\* fairness of the steps in progress is written out with their enabling
\* condition, the program counter. The documents are the alias-shaped ones.
InitFair ==
  /\ store \in AliasDocs
  /\ call = NoCall
  /\ PluginIdle

\* The handler is suspended at an await or about to continue after one.
InProgress == pc \in {"loadGroups", "getCollection", "getVariables", "process", "createTable"}

SpecFair == InitFair /\ [][Next]_vars /\ WF_vars(HandlerReturns) /\ ([]<>(~InProgress) \/ []<><<InProgress>>_vars)

\* The success outcome and the error outcome of a create-table request.
SuccessOutcome ==
  /\ closed
  /\ notified = <<Notification("Variables table created successfully!", FALSE)>>
  /\ posted = <<>>
ErrorOutcome ==
  /\ ~closed
  /\ Len(notified) = 1
  /\ notified[1].error
  /\ posted = <<ErrorMessage(notified[1].message)>>

\* A create-table request with all its fields is in progress.
Accepted == TableRequest /\ pc \notin {"idle", "done"}
\* The handler of a create-table request with all its fields has ended in
\* exactly one of the two outcomes.
EndedInOneOutcome ==
  /\ TableRequest
  /\ pc = "done"
  /\ SuccessOutcome \/ ErrorOutcome
  /\ ~(SuccessOutcome /\ ErrorOutcome)

\* The alias chain of a variable of the request runs into a cycle for a
\* requested mode.
RequestOnCycle ==
  \E v \in Selected(store, msg.collectionId, msg.groups.value), i \in 1..Len(msg.modes.value) :
    OnAliasCycle(store, v, msg.modes.value[i])

\* C18 as stated: every create-table request with all its fields, its host
\* calls returning, ends in exactly one of the two outcomes, never both and
\* never neither.
C18_Original == Accepted ~> EndedInOneOutcome

\* C18: a create-table request with all its fields, its host calls returning,
\* none of its variables on a cyclic alias chain for a requested mode, ends in
\* exactly one of the two outcomes; and no request is ever in both or, once
\* its handler is done, in neither.
C18_OneOutcome ==
  /\ [](TableRequest /\ pc = "done" => EndedInOneOutcome)
  /\ [](TableRequest /\ pc # "done" => posted = <<>> /\ notified = <<>> /\ ~closed)
  /\ (Accepted /\ ~RequestOnCycle) ~> EndedInOneOutcome

\* A request has ended in the error outcome after its records were being built.
C18_Witness ==
  /\ EndedInOneOutcome
  /\ ErrorOutcome
  /\ table.entered
  /\ ~NoRejection

\* ------------------------------------------------------------- the five message types
\* Settings objects the UI may send.
SettingsPool == {"s1", "s2"}

\* One message of each type the UI sends, with and without its optional field.
ProtocolMessages ==
  {Message(type, "undefined", "undefined", NoModes, NoGroups) : type \in {"load-collections", "cancel"}}
  \cup {Message("load-groups", cid, "undefined", NoModes, NoGroups) : cid \in {"c1", "undefined"}}
  \cup {Message("create-table", cid, "Colors", Given(<<"m1">>), Given({PrefixGroup(<<"a">>, 0)}))
          : cid \in {"c1", "undefined"}}
  \cup {[Message("save-settings", "undefined", "undefined", NoModes, NoGroups) EXCEPT !.settings = x]
          : x \in SettingsPool \cup {"undefined"}}

\* A message of any of the five types arrives.
OnProtocolMessage ==
  /\ pc = "idle"
  /\ \E m \in ProtocolMessages : Receive(m)

InitDispatch ==
  /\ store \in AliasDocs
  /\ call = NoCall
  /\ PluginIdle

NextDispatch ==
  \/ OnProtocolMessage
  \/ LoadCollections
  \/ LoadGroups
  \/ SaveSettings
  \/ GetCollection
  \/ GetVariables
  \/ TaskSettle
  \/ CreateTableFrame
  \/ TableFrameSettles
  \/ HandlerReturns

SpecDispatch == InitDispatch /\ [][NextDispatch]_vars

\* C19: when the handler of a message is done it has acted on it: cancel has
\* closed the plugin, save-settings with settings has persisted them (the
\* host not rejecting), load-collections and load-groups with a collection id
\* have posted their answer, create-table has posted or notified.
C19_EveryTypeActedOn ==
  pc = "done" =>
    /\ msg.type = "cancel" => closed
    /\ (msg.type = "save-settings" /\ Truthy(msg.settings) /\ NoRejection) => storage = msg.settings
    /\ msg.type = "load-collections" => Len(posted) = 1
    /\ (msg.type = "load-groups" /\ Truthy(msg.collectionId)) => Len(posted) = 1
    /\ msg.type = "create-table" => posted # <<>> \/ notified # <<>>

\* ------------------------------------------------------------- createValueCell, called directly
\* Display values, variable types and resolved colours a value cell is made of.
DisplayValues == {Color(31), Color(32), Str(<<"a">>), Num(1)}
VariableTypes == {"COLOR", "FLOAT", "STRING", "BOOLEAN"}
ResolvedColors == {Undefined, Null, Color(31), Color(33)}

\* createValueCell(value, type, width, colorValue, aliasVariable, tableTheme,
\* showSwatches): the frame's result is the colour of the indicator appended to
\* the cell, Null when none is appended.
CallCreateValueCell ==
  /\ call = NoCall
  /\ \E value \in DisplayValues, type \in VariableTypes,
        colorValue \in ResolvedColors, showSwatches \in BOOLEAN :
       call' = [fn |-> "createValueCell",
                arg |-> <<value, type, colorValue, showSwatches>>,
                threw |-> FALSE,
                f |-> Returned(IdleFrame, createValueCell(value, type, colorValue, showSwatches))]
  /\ UNCHANGED <<store, plugin>>

InitSwatch ==
  /\ store \in RenderDocs
  /\ call = NoCall
  /\ PluginIdle

NextSwatch == CallCreateValueCell

SpecSwatch == InitSwatch /\ [][NextSwatch]_vars

\* C20: the value cell gets a swatch only for a COLOR variable with
\* showSwatches on, and then its colour is the resolved colour when there is
\* one, else the display value when that is itself a colour, else there is no
\* swatch.
C20_SwatchDecision ==
  call.fn = "createValueCell" =>
    LET value == call.arg[1]
        type == call.arg[2]
        colorValue == call.arg[3]
        showSwatches == call.arg[4]
        swatch == call.f.result
    IN  /\ swatch # Null => type = "COLOR" /\ showSwatches
        /\ (type = "COLOR" /\ showSwatches /\ IsColor(colorValue)) => swatch = colorValue
        /\ (type = "COLOR" /\ showSwatches /\ ~IsColor(colorValue) /\ IsColor(value))
             => swatch = value
        /\ (~IsColor(colorValue) /\ ~IsColor(value)) => swatch = Null

\* A COLOR variable with a resolved colour and a different direct colour as
\* display value got the resolved colour as its swatch.
C20_Witness ==
  /\ call.fn = "createValueCell"
  /\ call.arg = <<Color(32), "COLOR", Color(33), TRUE>>
  /\ call.f.result = Color(33)

\* ------------------------------------------------------------- createSolidFill and createColorIndicator, called directly
\* Opacities are in hundredths; Undefined is an argument left out.
Opaque == Num(100)
Opacities == {Undefined, Num(12), Num(50), Opaque}
\* colors.colorCircle.stroke, and the red-green-blue parts of swatch colours.
StrokeColor == 0
PaintColors == {StrokeColor, 1, 2}
\* Colours with their optional alpha, as createColorIndicator receives them.
RGBA == [rgb : {1, 2}, a : {Undefined, Num(50), Opaque}]
\* The alias variable of a value cell: 0 when there is none.
AliasVariables == {0, 1}

\* const key = `${color.r}-${color.g}-${color.b}-${opacity ?? 1}`
FillKey(color, opacity) == <<color, IF opacity = Undefined THEN Opaque ELSE opacity>>

\* { type: 'SOLID', color, ...(opacity !== undefined && { opacity }) }: the
\* opacity field is Undefined when the paint has none.
SolidPaint(color, opacity) ==
  [type |-> "SOLID", color |-> color, opacity |-> opacity, boundVariable |-> 0]

\* createSolidFill with the cache as it finds it: the paint it returns and the
\* cache as it leaves it.
createSolidFill(cache, color, opacity) ==
  LET key == FillKey(color, opacity)
  IN  IF key \in DOMAIN cache THEN [cache |-> cache, fill |-> cache[key]]
      ELSE [cache |-> (key :> SolidPaint(color, opacity)) @@ cache,
            fill |-> SolidPaint(color, opacity)]

\* figma.variables.setBoundVariableForPaint(paint, 'color', variable)
setBoundVariableForPaint(paint, variable) == [paint EXCEPT !.boundVariable = variable]

\* Mutant: the binding is not wrapped in try/catch.
createColorIndicator_NoCatch(cache, color, type, aliasVariable, bindingThrows) ==
  LET solid == createSolidFill(cache, color.rgb, IF color.a # Undefined THEN color.a ELSE Opaque)
      stroke == createSolidFill(solid.cache, StrokeColor, Num(12))
  IN  IF aliasVariable # 0 /\ type = "COLOR" /\ bindingThrows
      THEN [cache |-> solid.cache, raised |-> TRUE, fills |-> <<>>, strokes |-> <<>>]
      ELSE [cache |-> stroke.cache, raised |-> FALSE,
            fills |-> IF aliasVariable # 0 /\ type = "COLOR"
                      THEN <<setBoundVariableForPaint(solid.fill, aliasVariable)>>
                      ELSE <<solid.fill>>,
            strokes |-> <<stroke.fill>>]

\* createColorIndicator: the fills and strokes of the ellipse, and the cache
\* as it leaves it. The fallback of the catch block asks createSolidFill for
\* the paint the try block has just cached.
createColorIndicator(cache, color, type, aliasVariable, bindingThrows) ==
  LET solid == createSolidFill(cache, color.rgb, IF color.a # Undefined THEN color.a ELSE Opaque)
      stroke == createSolidFill(solid.cache, StrokeColor, Num(12))
  IN  [cache |-> stroke.cache, raised |-> FALSE,
       fills |-> IF aliasVariable # 0 /\ type = "COLOR" /\ ~bindingThrows
                 THEN <<setBoundVariableForPaint(solid.fill, aliasVariable)>>
                 ELSE <<solid.fill>>,
       strokes |-> <<stroke.fill>>]

CallCreateSolidFill ==
  /\ \E color \in PaintColors, opacity \in Opacities :
       LET r == createSolidFill(fillCache, color, opacity)
       IN  /\ fillCache' = r.cache
           /\ call' = [fn |-> "createSolidFill", arg |-> <<color, opacity>>, threw |-> FALSE,
                       f |-> Returned(IdleFrame, r.fill)]
  /\ UNCHANGED <<store, storage, fontCache, pc, msg, tasks, table, posted, notified, closed,
                 canvas, throwsLeft>>

\* createValueCell calls createColorIndicator with the type of a variable it
\* found a colour for, which is COLOR.
CallCreateColorIndicator ==
  /\ \E color \in RGBA, aliasVariable \in AliasVariables, bindingThrows \in BOOLEAN :
       LET r == createColorIndicator(fillCache, color, "COLOR", aliasVariable, bindingThrows)
       IN  /\ fillCache' = r.cache
           /\ call' = [fn |-> "createColorIndicator", arg |-> <<color, "COLOR", aliasVariable>>,
                       threw |-> bindingThrows,
                       f |-> IF r.raised THEN Raised(IdleFrame)
                             ELSE Returned(IdleFrame, [fills |-> r.fills, strokes |-> r.strokes])]
  /\ UNCHANGED <<store, storage, fontCache, pc, msg, tasks, table, posted, notified, closed,
                 canvas, throwsLeft>>

\* The paints do not depend on the document: it has no variables.
InitPaint ==
  /\ store = <<>>
  /\ call = NoCall
  /\ PluginIdle

NextPaint ==
  \/ CallCreateSolidFill
  \/ CallCreateColorIndicator

SpecPaint == InitPaint /\ [][NextPaint]_vars

\* The opacity a paint is drawn with: 1 when it has no opacity field.
EffectiveOpacity(paint) == IF paint.opacity = Undefined THEN Opaque ELSE paint.opacity

\* C21: createColorIndicator returns, never raises, and the ellipse has exactly
\* one fill, of the given colour and drawn with the colour's alpha (1 when it
\* has none): bound to the alias variable when one is given and the binding
\* succeeds, unbound when none is given or the binding throws.
C21_OneFillBoundOrStatic ==
  call.fn = "createColorIndicator" =>
    LET color == call.arg[1]
        aliasVariable == call.arg[3]
    IN  /\ call.f.pc = "done"
        /\ Len(call.f.result.fills) = 1
        /\ call.f.result.fills[1].type = "SOLID"
        /\ call.f.result.fills[1].color = color.rgb
        /\ EffectiveOpacity(call.f.result.fills[1])
             = (IF color.a # Undefined THEN color.a ELSE Opaque)
        /\ call.f.result.fills[1].boundVariable
             = (IF aliasVariable # 0 /\ ~call.threw THEN aliasVariable ELSE 0)

\* The binding threw and the ellipse got the static paint.
C21_Witness ==
  /\ call.fn = "createColorIndicator"
  /\ call.arg[3] # 0
  /\ call.threw
  /\ call.f.pc = "done"
  /\ call.f.result.fills = <<SolidPaint(call.arg[1].rgb, Num(50))>>

\* C30: whatever calls came before, createSolidFill(color, opacity) returns the
\* paint an uncached construction gives: the same colour and the same opacity
\* field, absent when opacity is undefined.
C30_SameAsUncached ==
  call.fn = "createSolidFill" => call.f.result = SolidPaint(call.arg[1], call.arg[2])

\* ------------------------------------------------------------- generateDevToken and formatNumber, called directly
\* Characters of variable names: letters of both cases, a digit, the slash,
\* two kinds of whitespace, the dash, the underscore, and a special character.
TokenChars == {"a", "Z", "5", "/", " ", "\t", "-", "_", "!"}
DevTokenNames == UNION {[1..n -> TokenChars] : n \in 0..MaxNameLen}

\* \s
IsWhitespace(c) == c \in {" ", "\t"}
\* [a-zA-Z0-9\-_]
IsTokenChar(c) == c \in {"a", "Z", "5", "-", "_"}

\* Mutant: /\s/g for /\s+/g, every whitespace character becomes a dash.
ReplaceWhitespaceRuns_EachCharacter(s) ==
  [i \in 1..Len(s) |-> IF IsWhitespace(s[i]) THEN "-" ELSE s[i]]

\* .replace(/\s+/g, '-'): every maximal run of whitespace becomes one dash.
ReplaceWhitespaceRuns(s) ==
  LET kept == SelectSeq([i \in 1..Len(s) |-> i],
                        LAMBDA i : ~(IsWhitespace(s[i]) /\ i > 1 /\ IsWhitespace(s[i - 1])))
  IN  [k \in 1..Len(kept) |-> IF IsWhitespace(s[kept[k]]) THEN "-" ELSE s[kept[k]]]

\* .replace(/[^a-zA-Z0-9\-_]/g, '')
RemoveSpecialCharacters(s) == SelectSeq(s, IsTokenChar)

\* generateDevToken(variableName); "var(--" and ")" are one element each. Its
\* first replace is the one formatVariableName makes.
generateDevToken(variableName) ==
  <<"var(--">>
  \o RemoveSpecialCharacters(ReplaceWhitespaceRuns(formatVariableName(variableName)))
  \o <<")">>

CallGenerateDevToken ==
  /\ call = NoCall
  /\ \E variableName \in DevTokenNames :
       call' = [fn |-> "generateDevToken", arg |-> <<variableName>>, threw |-> FALSE,
                f |-> Returned(IdleFrame, generateDevToken(variableName))]
  /\ UNCHANGED <<store, plugin>>

\* Numbers are counted in ten-thousandths: num = n / Scale. The whole parts
\* and the fractions of that precision, of both signs. A fraction half-way
\* between two thousandths is a number of the language only when it is a
\* multiple of 1/16 = 625/Scale; the other half-way decimals are left out,
\* the numbers next to them are in.
Scale == 10000
WholeParts == {0, 2, 9, 99, 100}
Fractions == {frac \in 0..(Scale - 1) : frac % 10 # 5 \/ frac % 625 = 0}
NumberPool ==
  {sign * (whole * Scale + frac) : sign \in {1, -1}, whole \in WholeParts, frac \in Fractions}

DigitChars == <<"0", "1", "2", "3", "4", "5", "6", "7", "8", "9">>
\* The decimal digits of a natural number, no leading zeros.
RECURSIVE Digits(_)
Digits(k) == IF k < 10 THEN <<DigitChars[k + 1]>> ELSE Append(Digits(k \div 10), DigitChars[(k % 10) + 1])

\* A sequence of digit characters with its trailing zeros gone.
RECURSIVE WithoutTrailingZeros(_)
WithoutTrailingZeros(str) ==
  IF str # <<>> /\ str[Len(str)] = "0" THEN WithoutTrailingZeros(SubSeq(str, 1, Len(str) - 1))
  ELSE str

\* Number.prototype.toString of m / 1000, m an integer: the shortest decimal,
\* no sign for zero.
ThousandthsToString(m) ==
  LET abs == IF m < 0 THEN -m ELSE m
      frac == abs % 1000
      padded == <<DigitChars[(frac \div 100) + 1], DigitChars[((frac \div 10) % 10) + 1],
                  DigitChars[(frac % 10) + 1]>>
  IN  (IF m < 0 THEN <<"-">> ELSE <<>>)
      \o Digits(abs \div 1000)
      \o (IF frac = 0 THEN <<>> ELSE <<".">> \o WithoutTrailingZeros(padded))

\* result.replace(/\.?0+$/, ''): the zeros at the end and a point before them.
StripTrailingZeros(str) ==
  LET cut == WithoutTrailingZeros(str)
  IN  IF cut = str THEN str
      ELSE IF cut # <<>> /\ cut[Len(cut)] = "." THEN SubSeq(cut, 1, Len(cut) - 1)
      ELSE cut

\* Mutant: the zeros are stripped whether or not the string has a point.
formatNumber_NoPointCheck(n) ==
  IF n % Scale = 0 THEN ThousandthsToString((n \div Scale) * 1000)
  ELSE StripTrailingZeros(ThousandthsToString((n + 5) \div 10))

\* formatNumber(num) for num = n / Scale. Math.round(num * 1000) is
\* floor(num * 1000 + 1/2).
formatNumber(n) ==
  IF n % Scale = 0 THEN ThousandthsToString((n \div Scale) * 1000)
  ELSE LET rounded == (n + 5) \div 10
           result == ThousandthsToString(rounded)
       IN  IF Includes(result, ".") THEN StripTrailingZeros(result) ELSE result

CallFormatNumber ==
  /\ call = NoCall
  /\ \E n \in NumberPool :
       call' = [fn |-> "formatNumber", arg |-> <<n>>, threw |-> FALSE,
                f |-> Returned(IdleFrame, formatNumber(n))]
  /\ UNCHANGED <<store, plugin>>

InitFormat ==
  /\ store = <<>>
  /\ call = NoCall
  /\ PluginIdle

NextFormat ==
  \/ CallGenerateDevToken
  \/ CallFormatNumber
  \/ CallReturns

SpecFormat == InitFormat /\ [][NextFormat]_vars

\* What the characters of name from place i on contribute to the cleaned
\* name, read from left to right: a slash gives a dash, a whitespace
\* character gives a dash when it starts a run and nothing otherwise, a
\* letter, digit, dash or underscore gives itself, anything else nothing.
RECURSIVE CleanedFrom(_, _)
CleanedFrom(name, i) ==
  IF i > Len(name) THEN <<>>
  ELSE (IF name[i] = "/" THEN <<"-">>
        ELSE IF name[i] \in {" ", "\t"}
             THEN (IF i > 1 /\ name[i - 1] \in {" ", "\t"} THEN <<>> ELSE <<"-">>)
        ELSE IF name[i] \in {"a", "Z", "5", "-", "_"} THEN <<name[i]>>
        ELSE <<>>)
       \o CleanedFrom(name, i + 1)

\* C22: in every call, the token of a name is 'var(--', the cleaned name, ')':
\* it depends on the name alone.
C22_TokenOfName ==
  call.fn = "generateDevToken" =>
    call.f.result = <<"var(--">> \o CleanedFrom(call.arg[1], 1) \o <<")">>

\* A name with two slashes, an upper-case letter and a digit, as
\* 'color/primary/500', gave its token with dashes and the case kept.
C22_Witness ==
  /\ call.fn = "generateDevToken"
  /\ call.arg[1] = <<"a", "/", "Z", "/", "5">>
  /\ call.f.result = <<"var(--", "a", "-", "Z", "-", "5", ")">>

\* The number a sequence of digit characters writes.
RECURSIVE DigitsValue(_)
DigitsValue(str) ==
  IF str = <<>> THEN 0
  ELSE 10 * DigitsValue(SubSeq(str, 1, Len(str) - 1))
       + ((CHOOSE d \in 1..10 : DigitChars[d] = str[Len(str)]) - 1)

\* The place of the decimal point in str, 0 when there is none.
PointAt(str) == IF Includes(str, ".") THEN CHOOSE i \in 1..Len(str) : str[i] = "." ELSE 0

\* A decimal numeral is read back: its sign, its integer part, and its
\* fraction in thousandths.
Negative(str) == str # <<>> /\ str[1] = "-"
IntegerPart(str) ==
  SubSeq(str, IF Negative(str) THEN 2 ELSE 1, IF PointAt(str) = 0 THEN Len(str) ELSE PointAt(str) - 1)
FractionPart(str) == IF PointAt(str) = 0 THEN <<>> ELSE SubSeq(str, PointAt(str) + 1, Len(str))
ReadThousandths(str) ==
  LET fraction == FractionPart(str)
      scaled == DigitsValue(fraction \o [i \in 1..(3 - Len(fraction)) |-> "0"])
      abs == 1000 * DigitsValue(IntegerPart(str)) + scaled
  IN  IF Negative(str) THEN -abs ELSE abs

\* C23: the numeral formatNumber returns consists of an optional sign, the
\* digits of an integer part without leading zeros and, only for a value that
\* is not whole after rounding, a point and one to three digits the last of
\* which is not zero; read back it is the number itself when that is an
\* integer and the number rounded to the nearest thousandth otherwise.
C23_RoundedNumeral ==
  call.fn = "formatNumber" =>
    LET n == call.arg[1]
        str == call.f.result
        value == IF n % Scale = 0 THEN (n \div Scale) * 1000 ELSE (n + 5) \div 10
    IN  /\ \A i \in 1..Len(str) :
             \/ \E d \in 1..10 : str[i] = DigitChars[d]
             \/ str[i] = "." /\ i = PointAt(str)
             \/ str[i] = "-" /\ i = 1
        /\ IntegerPart(str) # <<>>
        /\ Len(IntegerPart(str)) > 1 => IntegerPart(str)[1] # "0"
        /\ PointAt(str) # 0 <=> value % 1000 # 0
        /\ PointAt(str) # 0 => Len(FractionPart(str)) \in 1..3 /\ str[Len(str)] # "0"
        /\ ReadThousandths(str) = value
        /\ Negative(str) <=> value < 0

\* 99.9996 was rendered as '100'.
C23_Witness ==
  /\ call.fn = "formatNumber"
  /\ call.arg[1] = 999996
  /\ call.f.result = <<"1", "0", "0">>

\* ------------------------------------------------------------- loadFontWithFallback and createTextNodesBatch
\* FONT_CONFIG
FontPrimary == "JetBrains Mono Medium"
FontSecondary == "Inter Medium"
FontFallback == "Roboto Regular"
FontHeader == "Roboto Medium"
FontTypes == {"primary", "secondary", "header", "fallback"}
\* colors.text.primary
TextColor == 3

\* Mutant: the primary font has no second choice.
fontOrder_NoSecondary(type) ==
  IF type = "header" THEN <<FontHeader, FontFallback>>
  ELSE IF type = "secondary" THEN <<FontSecondary, FontFallback>>
  ELSE <<FontPrimary, FontFallback>>

\* const fontOrder = ...
fontOrder(type) ==
  IF type = "header" THEN <<FontHeader, FontFallback>>
  ELSE IF type = "secondary" THEN <<FontSecondary, FontFallback>>
  ELSE <<FontPrimary, FontSecondary, FontFallback>>

\* loadFontWithFallback(type) up to its first await: it has returned the
\* cached font, or waits for the load of the first font of its order. `failed`
\* are the fonts whose load has thrown in this call, `node` the text node of a
\* text task.
StartLoad(cache, type) ==
  IF type \in DOMAIN cache
  THEN [type |-> type, stage |-> "done", i |-> 0, failed |-> {}, hit |-> TRUE,
        result |-> cache[type], node |-> <<>>]
  ELSE [type |-> type, stage |-> "load", i |-> 1, failed |-> {}, hit |-> FALSE,
        result |-> "", node |-> <<>>]

\* createTextNodesBatch is given texts, each with its font type.
TextLists == UNION {[1..n -> {"primary", "secondary", "header"}] : n \in 1..MaxTexts}

\* Mutant: the font types are not made a Set, one load per text.
PreloadTypes_PerText(texts) == texts

\* [...new Set(texts.map(t => t.fontType || 'primary'))]: the font types in
\* the order of their first occurrence.
PreloadTypes(texts) ==
  LET first == SelectSeq([i \in 1..Len(texts) |-> i],
                         LAMBDA i : \A j \in 1..(i - 1) : texts[j] # texts[i])
  IN  [k \in 1..Len(first) |-> texts[first[k]]]

CallLoadFontWithFallback ==
  /\ call = NoCall
  /\ \E type \in FontTypes :
       /\ tasks' = <<StartLoad(fontCache, type)>>
       /\ call' = [fn |-> "loadFontWithFallback", arg |-> <<type>>, threw |-> FALSE,
                   f |-> [IdleFrame EXCEPT !.pc = "load"]]
  /\ UNCHANGED <<store, storage, fillCache, fontCache, pc, msg, table, posted, notified, closed,
                 canvas, throwsLeft>>

\* createTextNodesBatch up to await Promise.all(fontTypes.map(...)).
CallCreateTextNodesBatch ==
  /\ call = NoCall
  /\ \E texts \in TextLists :
       /\ tasks' = [k \in 1..Len(PreloadTypes(texts)) |-> StartLoad(fontCache, PreloadTypes(texts)[k])]
       /\ call' = [fn |-> "createTextNodesBatch", arg |-> <<texts>>, threw |-> FALSE,
                   f |-> [IdleFrame EXCEPT !.pc = "preload"]]
  /\ UNCHANGED <<store, storage, fillCache, fontCache, pc, msg, table, posted, notified, closed,
                 canvas, throwsLeft>>

\* figma.loadFontAsync(font) of one waiting call settles: the font is cached
\* and returned, or the next font is tried, or after the last one the
\* fallback font is cached and returned.
LoadFontSettles ==
  /\ call.fn \in {"loadFontWithFallback", "createTextNodesBatch"}
  /\ \E k \in 1..Len(tasks), throws \in BOOLEAN :
       /\ tasks[k].stage = "load"
       /\ LET t == tasks[k]
              font == fontOrder(t.type)[t.i]
          IN  IF ~throws
              THEN /\ fontCache' = (t.type :> font) @@ fontCache
                   /\ tasks' = [tasks EXCEPT ![k].stage = "done", ![k].result = font]
              ELSE IF t.i < Len(fontOrder(t.type))
              THEN /\ tasks' = [tasks EXCEPT ![k].i = t.i + 1, ![k].failed = t.failed \cup {font}]
                   /\ UNCHANGED fontCache
              ELSE /\ fontCache' = (t.type :> FontFallback) @@ fontCache
                   /\ tasks' = [tasks EXCEPT ![k].stage = "done", ![k].result = FontFallback,
                                            ![k].failed = t.failed \cup {font}]
  /\ UNCHANGED <<store, storage, fillCache, call, pc, msg, table, posted, notified, closed,
                 canvas, throwsLeft>>

\* The direct call has its font.
LoadFontReturns ==
  /\ call.fn = "loadFontWithFallback"
  /\ call.f.pc = "load"
  /\ tasks[1].stage = "done"
  /\ call' = [call EXCEPT !.f = Returned(call.f, tasks[1].result)]
  /\ UNCHANGED <<store, plugin>>

\* Promise.all of the preloads resolves; texts.map starts one callback per
\* text, each running to its await loadFontWithFallback(fontType).
TextsStart ==
  /\ call.fn = "createTextNodesBatch"
  /\ call.f.pc = "preload"
  /\ \A k \in 1..Len(tasks) : tasks[k].stage = "done"
  /\ tasks' = [k \in 1..Len(call.arg[1]) |-> StartLoad(fontCache, call.arg[1][k])]
  /\ call' = [call EXCEPT !.f.pc = "texts"]
  /\ UNCHANGED <<store, storage, fillCache, fontCache, pc, msg, table, posted, notified, closed,
                 canvas, throwsLeft>>

\* One callback goes on after its await: fontName, characters, fontSize and
\* fills = [createSolidFill(colors.text.primary)].
TextNodeBuilt ==
  /\ call.fn = "createTextNodesBatch"
  /\ call.f.pc = "texts"
  /\ \E k \in 1..Len(tasks) :
       /\ tasks[k].stage = "done"
       /\ tasks[k].node = <<>>
       /\ LET r == createSolidFill(fillCache, TextColor, Undefined)
          IN  /\ fillCache' = r.cache
              /\ tasks' = [tasks EXCEPT ![k].node = <<[fontName |-> tasks[k].result, fills |-> <<r.fill>>]>>]
  /\ UNCHANGED <<store, storage, fontCache, call, pc, msg, table, posted, notified, closed,
                 canvas, throwsLeft>>

\* Promise.all of the text callbacks resolves.
BatchReturns ==
  /\ call.fn = "createTextNodesBatch"
  /\ call.f.pc = "texts"
  /\ \A k \in 1..Len(tasks) : tasks[k].node # <<>>
  /\ call' = [call EXCEPT !.f = Returned(call.f, [k \in 1..Len(tasks) |-> tasks[k].node[1]])]
  /\ UNCHANGED <<store, plugin>>

InitFonts ==
  /\ store = <<>>
  /\ call = NoCall
  /\ PluginIdle

NextFonts ==
  \/ CallLoadFontWithFallback
  \/ CallCreateTextNodesBatch
  \/ LoadFontSettles
  \/ LoadFontReturns
  \/ TextsStart
  \/ TextNodeBuilt
  \/ BatchReturns
  \/ CallReturns

SpecFonts == InitFonts /\ [][NextFonts]_vars

\* The priority list of a role as the claim C26 gives it.
PriorityList(role) ==
  CASE role = "header" -> <<FontHeader, FontFallback>>
    [] role = "secondary" -> <<FontSecondary, FontFallback>>
    [] OTHER -> <<FontPrimary, FontSecondary, FontFallback>>

\* C26: a loadFontWithFallback call never raises. A call that found no cached
\* font has tried the fonts of its role's priority list in order and returned
\* the first whose load succeeded, or the fallback font when every load
\* failed; a call that found a cached font returned it, and a cached font is
\* one of the role's priority list.
C26_FirstLoadedOrFallback ==
  /\ call.f.pc # "raised"
  /\ \A type \in DOMAIN fontCache :
       \E j \in 1..Len(PriorityList(type)) : fontCache[type] = PriorityList(type)[j]
  /\ call.fn \in {"loadFontWithFallback", "createTextNodesBatch"} =>
       \A k \in 1..Len(tasks) :
         tasks[k].stage = "done" =>
           LET t == tasks[k]
               list == PriorityList(t.type)
           IN  IF t.hit THEN t.result = fontCache[t.type] /\ t.failed = {}
               ELSE \/ \E j \in 1..Len(list) :
                        /\ t.result = list[j]
                        /\ t.failed = {list[x] : x \in 1..(j - 1)}
                    \/ /\ t.result = FontFallback
                       /\ t.failed = {list[x] : x \in 1..Len(list)}

\* Every load of a call for the role 'fallback' failed and the call returned
\* the fallback font.
C26_Witness ==
  /\ call.fn = "loadFontWithFallback"
  /\ call.arg[1] = "fallback"
  /\ call.f.pc = "done"
  /\ call.f.result = FontFallback
  /\ tasks[1].failed = {FontPrimary, FontSecondary, FontFallback}

\* C24: a step changes no entry that fontCache or fillCache already holds.
C24_CacheEntriesNeverChange ==
  [][/\ \A key \in DOMAIN fontCache :
          key \in DOMAIN fontCache' /\ fontCache'[key] = fontCache[key]
     /\ \A key \in DOMAIN fillCache :
          key \in DOMAIN fillCache' /\ fillCache'[key] = fillCache[key]]_vars

\* Two texts of one font type were built in one batch whose preload had to try
\* a second font, and both caches hold an entry.
C24_Witness ==
  /\ call.fn = "createTextNodesBatch"
  /\ call.f.pc = "done"
  /\ call.arg[1] = <<"primary", "primary">>
  /\ fontCache["primary"] = FontSecondary
  /\ DOMAIN fillCache # {}

\* ------------------------------------------------------------- claims on the concurrent record building
\* The keys of an object in insertion order.
KeysOf(obj) == [i \in 1..Len(obj) |-> obj[i][1]]

\* The first n requested modes as the keys of an object filled in that order.
ModesUpTo(n) == FirstOccurrences(SubSeq(msg.modes.value, 1, n))

\* The record under construction holds values for the modes before the current
\* one, in the requested order, and for the current one once the display value
\* has been awaited; likewise colorValues of a COLOR variable.
ModesInOrder(t) ==
  LET isColor == store[t.var].resolvedType = "COLOR"
  IN  /\ t.mi \in 1..(Len(msg.modes.value) + 1)
      /\ t.stage \in {"rv", "done"} => KeysOf(t.values) = ModesUpTo(t.mi - 1)
      /\ t.stage \in {"rc", "alias"} => KeysOf(t.values) = ModesUpTo(t.mi)
      /\ t.stage = "raised" => KeysOf(t.values) \in {ModesUpTo(t.mi - 1), ModesUpTo(t.mi)}
      /\ t.stage = "done" => t.mi = Len(msg.modes.value) + 1
      /\ isColor /\ t.stage \in {"rv", "rc", "done"} => KeysOf(t.colorValues) = ModesUpTo(t.mi - 1)
      /\ isColor /\ t.stage = "alias" => KeysOf(t.colorValues) = ModesUpTo(t.mi)
      /\ ~isColor => t.colorValues = <<>> /\ t.aliasVariables = <<>>

\* The processVariableData call of variable v run alone from start to return.
SequentialRecord(v) ==
  VariableData(store, FinishedTask(store, msg.modes.value,
                                   RunModes(store, msg.modes.value, NewTask(v))))

\* One call per filtered variable, at the index of its variable.
OneTaskPerFilteredVariable ==
  LET filteredVariables == FilteredVariables(store, msg.collectionId, msg.groups.value)
  IN  /\ Len(tasks) = Len(filteredVariables)
      /\ \A k \in 1..Len(tasks) : tasks[k].var = filteredVariables[k]

\* C25: while the processVariableData calls of a request run concurrently and
\* after they have returned, there is exactly one call per filtered variable at
\* the index of its variable; every call holds the entries of the requested
\* modes in the requested order up to the mode it is at; when no host call
\* rejected, the record of a returned call is the one the call would have
\* returned run alone, and the table is built from these records; a step
\* resumes one call only, leaves the others as they are and never moves a call
\* back to an earlier mode.
C25_RecordsAsSequential ==
  /\ [](pc \in {"process", "createTable"} =>
          /\ OneTaskPerFilteredVariable
          /\ \A k \in 1..Len(tasks) :
               /\ ModesInOrder(tasks[k])
               /\ (NoRejection /\ tasks[k].stage = "done") =>
                    VariableData(store, tasks[k]) = SequentialRecord(tasks[k].var)
          /\ (NoRejection /\ table.entered) =>
               table.records = sortVariablesByPrefixAndName(
                                 [k \in 1..Len(tasks) |-> SequentialRecord(tasks[k].var)]))
  /\ [][pc = "process" =>
          /\ Len(tasks') = Len(tasks)
          /\ \A k \in 1..Len(tasks) : tasks'[k].var = tasks[k].var /\ tasks'[k].mi >= tasks[k].mi
          /\ Cardinality({k \in 1..Len(tasks) : tasks'[k] # tasks[k]}) <= 1]_vars

\* A later call has returned while an earlier one, started before it, is still
\* suspended in its second mode: the calls did not finish in dispatch order.
C25_Witness ==
  /\ pc = "process"
  /\ NoRejection
  /\ Len(tasks) >= 2
  /\ Len(msg.modes.value) = 2
  /\ \E j, k \in 1..Len(tasks) :
       /\ j < k
       /\ tasks[j].stage \in {"rv", "rc", "alias"}
       /\ tasks[j].mi = 2
       /\ tasks[k].stage = "done"
       /\ Len(tasks[k].colorValues) = 2

\* ------------------------------------------------------------- claims on the recursion of resolveColorValue
\* The variable a value refers to: the target of an alias, the COLOR variable a
\* string containing '/' names; none for another value or a missing target.
RefersTo(st, val) ==
  IF IsAlias(val) THEN {val[2]} \cap DOMAIN st
  ELSE IF IsSlashString(val) THEN {FindColorByName(st, val[2])} \cap DOMAIN st
  ELSE {}

\* The variables the values of variable i refer to, under any mode.
References(st, i) ==
  UNION {RefersTo(st, st[i].valuesByMode[k][2]) : k \in 1..Len(st[i].valuesByMode)}

\* The variables reachable from the set S by at most n references (S included).
RECURSIVE ReachableFrom(_, _, _)
ReachableFrom(st, S, n) ==
  IF n = 0 THEN S
  ELSE ReachableFrom(st, S \cup UNION {References(st, i) : i \in S}, n - 1)

\* The variables on the chains that start at a value.
Chain(st, val) == ReachableFrom(st, RefersTo(st, val), Len(st))

\* No variable on the chains that start at the value is reachable from itself.
NoCycleFrom(st, val) ==
  \A i \in Chain(st, val) : i \notin ReachableFrom(st, References(st, i), Len(st))

\* C27: when the references reachable from the value resolveColorValue is
\* called with contain no cycle, every resumption of the call either ends it
\* or makes one recursive call for a variable of the chain whose own chain is
\* strictly shorter, and the recursive calls made so far plus the variables
\* still ahead never exceed the variables on the chain: the call ends after at
\* most one recursive call per variable on the chain.
C27_OneCallPerChainVariable ==
  /\ []((call.fn = "resolveColorValue" /\ NoCycleFrom(store, call.arg[3])) =>
          call.f.hops + Cardinality(Chain(store, call.f.value))
            <= Cardinality(Chain(store, call.arg[3])))
  /\ [][(/\ call.fn = "resolveColorValue"
         /\ call.f.pc \in {"lookup", "list"}
         /\ NoCycleFrom(store, call.arg[3])
         /\ call'.fn = "resolveColorValue"
         /\ call'.f.pc \in {"lookup", "list"})
        => /\ call'.f.hops = call.f.hops + 1
           /\ call'.f.var \in RefersTo(store, call.f.value)
           /\ Chain(store, call'.f.value) \subseteq Chain(store, call.f.value) \ {call'.f.var}]_vars

\* A call for a name string has ended after one recursive call for each of the
\* three variables on its chain.
C27_Witness ==
  /\ ResolveColorDone
  /\ ~call.threw
  /\ NoCycleFrom(store, call.arg[3])
  /\ Cardinality(Chain(store, call.arg[3])) = 3
  /\ call.f.hops = 3
  /\ IsColor(call.f.result)

\* ------------------------------------------------------------- claims on the mode of the next hop
\* The call's value is an alias to a COLOR variable B without a value for the
\* requested mode whose first-mode value is an alias to a COLOR variable C
\* that has a value for the requested mode.
FallbackThenHop(b, c) ==
  /\ call.fn = "resolveColorValue"
  /\ IsAlias(call.arg[3])
  /\ b = call.arg[3][2]
  /\ b \in DOMAIN store
  /\ store[b].resolvedType = "COLOR"
  /\ ~HasMode(store[b].valuesByMode, call.arg[2])
  /\ Len(store[b].valuesByMode) > 0
  /\ IsAlias(store[b].valuesByMode[1][2])
  /\ c = store[b].valuesByMode[1][2][2]
  /\ c \in DOMAIN store
  /\ store[c].resolvedType = "COLOR"
  /\ HasMode(store[c].valuesByMode, call.arg[2])

\* C29: for A -> B -> C requested under mode m, B without a value for m and
\* B's first-mode value an alias to C, every activation of the recursion runs
\* under the requested mode m, and when no lookup throws the call returns C's
\* value for m if that is a direct colour, and what C's alias chain under m
\* ends in if it is an alias.
C29_FallbackOneHopOnly ==
  \A b, c \in VarIds :
    FallbackThenHop(b, c) =>
      /\ call.f.mode = call.arg[2]
      /\ (/\ call.f.pc = "done"
          /\ ~call.threw
          /\ ChainEnd(store, c, call.arg[2], NumVars) # Null)
         => call.f.result = ChainEnd(store, c, call.arg[2], NumVars)

\* The call has returned C's colour of the requested mode where C also has a
\* different colour under the mode B's value was taken from.
C29_Witness ==
  \E b, c \in VarIds :
    /\ FallbackThenHop(b, c)
    /\ call.f.pc = "done"
    /\ ~call.threw
    /\ call.f.hops = 2
    /\ IsColor(ValueOf(store[c].valuesByMode, call.arg[2]))
    /\ IsColor(ValueOf(store[c].valuesByMode, store[b].valuesByMode[1][1]))
    /\ ValueOf(store[c].valuesByMode, call.arg[2])
         # ValueOf(store[c].valuesByMode, store[b].valuesByMode[1][1])
    /\ call.f.result = ValueOf(store[c].valuesByMode, call.arg[2])

\* ------------------------------------------------------------- selecting reported groups
\* The entries of the group list loadGroups posts for a collection.
ReportedGroups(st, collectionId) ==
  LET groups == GroupsLoaded(st, collectionId).groups
  IN  {groups[i] : i \in 1..Len(groups)}

\* What the UI sends for a document: load-groups for a collection, and
\* create-table with any selection of the entries reported for the collection.
SelectionMessages(st) ==
  {Message("load-groups", cid, "undefined", NoModes, NoGroups) : cid \in Collections}
  \cup UNION {{Message("create-table", cid, "Colors", Given(<<"m1">>), Given(selected))
                 : selected \in SUBSET ReportedGroups(st, cid)}
              : cid \in Collections}

\* A message of the UI arrives.
OnSelectionMessage ==
  /\ pc = "idle"
  /\ \E m \in SelectionMessages(store) : Receive(m)

InitSelect ==
  /\ store \in NameDocs
  /\ call = NoCall
  /\ PluginIdle

NextSelect ==
  \/ OnSelectionMessage
  \/ LoadGroups
  \/ GetCollection
  \/ GetVariables
  \/ CreateTableFrame
  \/ TableFrameSettles
  \/ HandlerReturns

SpecSelect == InitSelect /\ [][NextSelect]_vars

\* The sum of the counts of a set of group entries.
RECURSIVE SumOfCounts(_)
SumOfCounts(groups) ==
  IF groups = {} THEN 0
  ELSE LET g == CHOOSE x \in groups : TRUE
       IN  g.count + SumOfCounts(groups \ {g})

\* getFilteredVariables of the create-table request has returned its list: the
\* processVariableData calls were dispatched on it.
FilterReturned == msg.type = "create-table" /\ pc \in {"process", "createTable"}
\* getFilteredVariables has thrown 'No variables found in selected groups'.
FilterThrewNoVariables ==
  /\ msg.type = "create-table"
  /\ pc = "done"
  /\ posted # <<>>
  /\ posted[Len(posted)] = NoVariablesFoundMessage

\* The list getFilteredVariables returned holds as many variables as the sum of
\* the selected entries' counts, each once, and every variable of the
\* collection when every reported entry is selected.
CountsAddUp ==
  LET selected == msg.groups.value
      ids == CollectionVariables(store, msg.collectionId)
  IN  /\ Len(tasks) = SumOfCounts(selected)
      /\ \A j, k \in 1..Len(tasks) : tasks[j].var = tasks[k].var => j = k
      /\ selected = ReportedGroups(store, msg.collectionId)
           => {tasks[k].var : k \in 1..Len(tasks)} = {ids[i] : i \in 1..Len(ids)}

\* C28 as claimed: for every selection of entries loadGroups reported for the
\* collection, getFilteredVariables returns, and returns as many variables as
\* the sum of the selected entries' counts (every variable of the collection
\* when every entry is selected).
C28_Original ==
  (/\ msg.type = "create-table"
   /\ msg.groups.value \subseteq ReportedGroups(store, msg.collectionId)
   /\ FilterReturned \/ FilterThrewNoVariables)
  => FilterReturned /\ CountsAddUp

\* C28 amended: for every selection of at least one entry loadGroups reported
\* for the collection, getFilteredVariables returns, and returns as many
\* variables as the sum of the selected entries' counts (every variable of the
\* collection when every entry is selected); it throws 'No variables found in
\* selected groups' only for the selection of no entry.
C28_SelectionAddsUp ==
  (/\ msg.type = "create-table"
   /\ msg.groups.value \subseteq ReportedGroups(store, msg.collectionId))
  => /\ FilterReturned => CountsAddUp
     /\ FilterThrewNoVariables => msg.groups.value = {}

\* A prefix entry of two variables was selected and another entry was not: the
\* two variables came back.
C28_Witness ==
  /\ FilterReturned
  /\ msg.groups.value \subseteq ReportedGroups(store, msg.collectionId)
  /\ msg.groups.value # ReportedGroups(store, msg.collectionId)
  /\ \E g \in msg.groups.value : ~g.isIndividual /\ g.count = 2
  /\ Len(tasks) = 2

====
